---------------------------- MODULE Spec2Model ----------------------------
(***************************************************************************)
(* A model of rusty-psn's update pipeline: the hashing utility             *)
(* (src/src/utils.rs), the download engine and the merge engine            *)
(* (src/src/psn/mod.rs, src/src/psn/utils.rs) and the update resolver with *)
(* its two parsers (src/src/psn/parser.rs, src/src/psn/manifest_parser.rs).*)
(*                                                                         *)
(* Each engine has its own specification over its own group of variables;  *)
(* the variables of the other engines stay at their idle values.           *)
(***************************************************************************)
EXTENDS Integers, Sequences, FiniteSets, TLC

(***************************************************************************)
(* Bounds of the model.                                                    *)
(***************************************************************************)
\* Size of the modelled digest space (SHA-1 has 2^160 values).
DigestSpace == 7
\* Longest payload (the bytes before a digest footer) of an enumerated file.
MaxBody == 1
\* Most chunks a response body delivers in one download.
MaxChunks == 2
\* Most invocations of start_download on the same path in one behaviour.
MaxRuns == 2
\* Width of usize on a target narrower than 64 bits, scaled from 32 as the
\* enumerated files are: a length of 2^NarrowBits and more does not fit.
NarrowBits == 5

(***************************************************************************)
(* Program constants.                                                      *)
(***************************************************************************)
\* utils.rs:96, 0x20: length of the digest footer of a PS3 package.
SuffixSize == 32
\* utils.rs:87, 1024 * 1024 * 128: capacity of hash_file's BufReader.
CHUNK_SIZE == 134217728

Byte == {0, 1}

Min(a, b) == IF a < b THEN a ELSE b

\* n copies of byte b.
Pad(b, n) == [i \in 1..n |-> b]

\* s[1..n], s[n+1..]
Take(s, n) == SubSeq(s, 1, n)
Drop(s, n) == SubSeq(s, n + 1, Len(s))

\* All byte sequences of length at most n.
BytesUpTo(n) == UNION {[1..k -> Byte] : k \in 0..n}

(***************************************************************************)
(* sha1_smol::Sha1, as a streaming fold into a finite digest space:        *)
(* Sha1::new(), update(block) and digest().to_string().  A digest string   *)
(* is the lower-hex rendering of a digest; an expected hash may also be    *)
(* the upper-hex rendering of one or the empty string, which no digest     *)
(* renders to.                                                             *)
(***************************************************************************)
Sha1New == 0

\* The fold h -> (2 * h + byte + 1) % DigestSpace over the bytes of the
\* block, in order; a block of several bytes is folded half by half.  (The
\* test of h makes TLC evaluate the digest so far before it folds on.)
RECURSIVE Sha1Update(_, _)
Sha1Update(h, block) ==
    IF h < 0 \/ block = <<>> THEN h
    ELSE IF Len(block) = 1 THEN (2 * h + block[1] + 1) % DigestSpace
    ELSE Sha1Update(Sha1Update(h, Take(block, Len(block) \div 2)),
                    Drop(block, Len(block) \div 2))

DigestToString(h) == <<"hex", h>>
UpperHex(h) == <<"HEX", h>>
EmptyString == <<>>

\* The digest string of a whole byte sequence.
Sha1Of(bytes) == DigestToString(Sha1Update(Sha1New, bytes))

(***************************************************************************)
(* hash_file (utils.rs:88-146).                                            *)
(*                                                                         *)
(* A hashing state is a record: the file's bytes, the expected hash, the   *)
(* length without suffix, the bytes processed so far, the hasher, the      *)
(* bytes fed to the hasher so far (a history of hasher.update's inputs),   *)
(* and the outcome ("run" while the loop runs).                            *)
(***************************************************************************)
\* The width of usize on the target the program was built for.
VARIABLES usize_bits

vars_build == <<usize_bits>>

BuildInit == usize_bits \in {NarrowBits, 64}
BuildIdle == usize_bits = 64

\* utils.rs:105-107: whether a u64 converts to usize (try_into).
FitsUsize(n) == usize_bits = 64 \/ n < 2 ^ usize_bits

suffix_size(hash_whole_file) == IF hash_whole_file THEN 0 ELSE SuffixSize

\* utils.rs:100-103: the length test made before any byte is read.
TooShort(file_length, hash_whole_file) ==
    file_length <= suffix_size(hash_whole_file)

\* utils.rs:93-116: up to the loop.  A length that does not fit usize ends
\* hash_file with Err(HashMismatch(true)) (outcome "hash_mismatch").
HashBegin(file, hash, hash_whole_file) ==
    [ file |-> file,
      hash |-> hash,
      file_length_without_suffix |-> Len(file) - suffix_size(hash_whole_file),
      processed_length |-> 0,
      hasher |-> Sha1New,
      fed |-> <<>>,
      outcome |-> IF TooShort(Len(file), hash_whole_file) THEN "false"
                  ELSE IF ~FitsUsize(Len(file) - suffix_size(hash_whole_file))
                  THEN "hash_mismatch"
                  ELSE "run" ]

\* utils.rs:129-136: the part of a chunk that is hashed.
Hashable(chunk_buffer, previously_processed_length, flws) ==
    IF previously_processed_length + Len(chunk_buffer) > flws
    THEN Take(chunk_buffer, flws - previously_processed_length)
    ELSE chunk_buffer

\* utils.rs:117-143: one iteration of the loop, fill_buf delivering n bytes
\* (n = 0 at the end of the file).
HashStep(st, n) ==
    LET chunk_buffer == SubSeq(st.file, st.processed_length + 1,
                               st.processed_length + n)
        processed    == st.processed_length + n
        suffix_part_in_chunk == processed > st.file_length_without_suffix
        hashable_buffer == Hashable(chunk_buffer, st.processed_length,
                                    st.file_length_without_suffix)
        hasher == Sha1Update(st.hasher, hashable_buffer)
    IN  IF n = 0
        THEN [st EXCEPT !.outcome =
                 IF DigestToString(st.hasher) = st.hash THEN "true" ELSE "false"]
        ELSE [st EXCEPT
                 !.processed_length = processed,
                 !.hasher = hasher,
                 !.fed = st.fed \o hashable_buffer,
                 !.outcome = IF suffix_part_in_chunk
                             THEN IF DigestToString(hasher) = st.hash
                                  THEN "true" ELSE "false"
                             ELSE "run"]

\* The bytes fill_buf may deliver: at least one while bytes remain, at most
\* the reader's capacity, none at the end of the file.
FillSizes(st) ==
    LET remaining == Len(st.file) - st.processed_length
    IN  IF remaining = 0 THEN {0} ELSE 1..Min(remaining, CHUNK_SIZE)

\* The whole of hash_file with every fill_buf delivering at most blk bytes:
\* the final hashing state.
RECURSIVE HashRun(_, _)
HashRun(st, blk) ==
    IF st.outcome # "run" THEN st
    ELSE HashRun(HashStep(st, Min(blk, Len(st.file) - st.processed_length)), blk)

hash_file(file, hash, hash_whole_file, blk) ==
    HashRun(HashBegin(file, hash, hash_whole_file), blk)

(***************************************************************************)
(* The hashing utility on its own: hash_file applied to an enumerated      *)
(* file, one fill_buf at a time, with every block size the reader may      *)
(* deliver.                                                                *)
(***************************************************************************)
VARIABLES h_st, h_whole, h_pc

vars_hash == <<h_st, h_whole, h_pc>>

\* Enumerated file contents: a payload, then nothing, a short footer or a
\* footer of SuffixSize bytes.
Footers == {<<>>, Pad(0, SuffixSize - 1), Pad(0, SuffixSize), Pad(1, SuffixSize),
            <<1>> \o Pad(0, SuffixSize - 1)}
Files == {body \o foot : body \in BytesUpTo(MaxBody), foot \in Footers}

\* Enumerated expected hashes: the digests of the payloads, an upper-case
\* rendering and the empty string of PackageInfo::empty.
Hashes == {Sha1Of(body) : body \in BytesUpTo(MaxBody)}
              \cup {UpperHex(Sha1New), EmptyString}

HashIdle ==
    /\ h_st = HashBegin(<<>>, EmptyString, TRUE)
    /\ h_whole = TRUE
    /\ h_pc = "idle"

HashInit ==
    /\ h_whole \in BOOLEAN
    /\ \E file \in Files, hash \in Hashes :
           h_st = [HashBegin(file, hash, h_whole) EXCEPT !.outcome = "run"]
    /\ h_pc = "call"

\* utils.rs:93-113: metadata, the length test, the seek.
HashOpen ==
    /\ h_pc = "call"
    /\ \/ /\ h_st' = HashBegin(h_st.file, h_st.hash, h_whole)
          /\ h_pc' = IF h_st'.outcome = "run" THEN "loop" ELSE "done"
       \/ /\ h_st' = [h_st EXCEPT !.outcome = "tokio"]
          /\ h_pc' = "done"
    /\ UNCHANGED h_whole

\* utils.rs:117-143: one loop iteration.
HashFillBuf ==
    /\ h_pc = "loop"
    /\ \/ \E n \in FillSizes(h_st) :
              /\ h_st' = HashStep(h_st, n)
              /\ h_pc' = IF h_st'.outcome = "run" THEN "loop" ELSE "done"
       \/ /\ h_st' = [h_st EXCEPT !.outcome = "tokio"]
          /\ h_pc' = "done"
    /\ UNCHANGED h_whole

(***************************************************************************)
(* The download engine: PackageInfo::start_download (psn/mod.rs:288-401)   *)
(* on one package and one destination path, invoked up to MaxRuns times.   *)
(*                                                                         *)
(*   d_pkg        the PackageInfo: sha1sum, hash_whole_file, size          *)
(*   d_disk       the bytes of the destination file                        *)
(*   d_cursor     the seek position of pkg_file                            *)
(*   d_pc         the position of the task in start_download               *)
(*   d_chunk      the chunk response.chunk() returned last                 *)
(*   d_received   received_data                                            *)
(*   d_delivered  the chunks the response body has delivered               *)
(*   d_sent       the DownloadStatus events sent on tx in this run         *)
(*   d_rx_open    whether the caller still holds the receiver              *)
(*   d_result     what the run returned ("none" while it runs)             *)
(*   d_run        the number of the invocation                             *)
(* and, recorded for the properties:                                       *)
(*   d_reads      the calls of response.chunk() in this run                *)
(*   d_hashes     the results of the hash_file calls of this run           *)
(*   d_start      the bytes of the file when the run started               *)
(*   d_fault      whether a request, a file operation or the body stream   *)
(*                failed in this run                                       *)
(*   d_prev_ok    whether the previous run returned Ok(()) and the file    *)
(*                was not written since                                    *)
(*   d_touched    whether the file was written after the run returned      *)
(*   d_body       the chunks response.chunk() returned in this run, joined *)
(***************************************************************************)
VARIABLES d_pkg, d_disk, d_cursor, d_pc, d_chunk, d_received, d_delivered,
          d_sent, d_rx_open, d_result, d_run,
          d_reads, d_hashes, d_start, d_fault, d_prev_ok, d_touched, d_body

vars_dl == <<d_pkg, d_disk, d_cursor, d_pc, d_chunk, d_received, d_delivered,
             d_sent, d_rx_open, d_result, d_run,
             d_reads, d_hashes, d_start, d_fault, d_prev_ok, d_touched,
             d_body>>

\* psn/mod.rs:15-21: DownloadStatus.
Progress(n) == [kind |-> "Progress", n |-> n]
Verifying == [kind |-> "Verifying", n |-> 0]
DownloadSuccess == [kind |-> "DownloadSuccess", n |-> 0]
DownloadFailure == [kind |-> "DownloadFailure", n |-> 0]

\* psn/mod.rs:39-45: DownloadError, and the return values of a run.
HashMismatch(short) == IF short THEN "HashMismatch(true)" ELSE "HashMismatch(false)"
TypedErrors == {"HashMismatch(true)", "HashMismatch(false)", "Tokio", "Reqwest"}

\* The chunks a response body may deliver.
Chunks == (BytesUpTo(MaxBody) \ {<<>>}) \cup {Pad(0, SuffixSize)}

\* The declared sizes of the enumerated packages.
Sizes == {1, 1 + SuffixSize}

\* The block sizes with which the reader of hash_file is run inside a
\* download: blocks one byte short of the footer, or whole buffers.
ReadSizes == {SuffixSize - 1, CHUNK_SIZE}

\* A write of bytes at position pos of a file (a hole is filled with zeros).
WriteAt(file, pos, bytes) ==
    LET base == IF pos > Len(file) THEN file \o Pad(0, pos - Len(file)) ELSE file
    IN  Take(base, pos) \o bytes \o Drop(base, pos + Len(bytes))

DlIdle ==
    /\ d_pkg = [sha1sum |-> EmptyString, hash_whole_file |-> FALSE, size |-> 0]
    /\ d_disk = <<>>
    /\ d_cursor = 0
    /\ d_pc = "idle"
    /\ d_chunk = <<>>
    /\ d_received = 0
    /\ d_delivered = 0
    /\ d_sent = <<>>
    /\ d_rx_open = TRUE
    /\ d_result = "none"
    /\ d_run = 0
    /\ d_reads = 0
    /\ d_hashes = <<>>
    /\ d_start = <<>>
    /\ d_fault = FALSE
    /\ d_prev_ok = FALSE
    /\ d_touched = FALSE
    /\ d_body = <<>>

DlInit ==
    /\ d_pkg \in [sha1sum : Hashes, hash_whole_file : BOOLEAN, size : Sizes]
    /\ d_disk \in Files
    /\ d_cursor = 0
    /\ d_pc = "request"
    /\ d_chunk = <<>>
    /\ d_received = 0
    /\ d_delivered = 0
    /\ d_sent = <<>>
    /\ d_rx_open = TRUE
    /\ d_result = "none"
    /\ d_run = 1
    /\ d_reads = 0
    /\ d_hashes = <<>>
    /\ d_start = d_disk
    /\ d_fault = FALSE
    /\ d_prev_ok = FALSE
    /\ d_touched = FALSE
    /\ d_body = <<>>

\* A return of start_download.
Return(r) ==
    /\ d_result' = r
    /\ d_pc' = "done"

\* An Err return caused by the environment.
Fail(r) ==
    /\ Return(r)
    /\ d_fault' = TRUE

\* tx.send(ev).await.unwrap(): the event is sent, or the task panics when
\* the receiver is gone.
Send(ev, next) ==
    IF d_rx_open
    THEN /\ d_sent' = Append(d_sent, ev)
         /\ d_pc' = next
         /\ UNCHANGED d_result
    ELSE /\ Return("panic")
         /\ UNCHANGED d_sent

\* psn/mod.rs:298-308: the client is built and the request sent.
SendRequest ==
    /\ d_pc = "request"
    /\ \/ /\ d_pc' = "create"
          /\ UNCHANGED <<d_result, d_fault>>
       \/ Fail("Reqwest")
    /\ UNCHANGED <<d_pkg, d_body, d_disk, d_cursor, d_chunk, d_received, d_delivered,
                   d_sent, d_rx_open, d_run, d_reads, d_hashes, d_start,
                   d_prev_ok,
                   d_touched>>

\* create_pkg_file with truncate(true) in its OpenOptions.
CreatePkgFileMutTruncate ==
    /\ d_pc = "create"
    /\ \/ /\ d_pc' = "verifying1"
          /\ d_cursor' = 0
          /\ d_disk' = <<>>
          /\ UNCHANGED <<d_result, d_fault>>
       \/ /\ Fail("Tokio")
          /\ UNCHANGED <<d_cursor, d_disk>>
    /\ UNCHANGED <<d_pkg, d_body, d_chunk, d_received, d_delivered,
                   d_sent, d_rx_open, d_run, d_reads, d_hashes, d_start,
                   d_prev_ok, d_touched>>

\* psn/mod.rs:325-326, utils.rs:40-85: create_pkg_file opens the file
\* (create, read, write, no truncate) with the cursor at 0.
CreatePkgFile ==
    /\ d_pc = "create"
    /\ \/ /\ d_pc' = "verifying1"
          /\ d_cursor' = 0
          /\ UNCHANGED <<d_result, d_fault>>
       \/ /\ Fail("Tokio")
          /\ UNCHANGED d_cursor
    /\ UNCHANGED <<d_pkg, d_body, d_disk, d_chunk, d_received, d_delivered,
                   d_sent, d_rx_open, d_run, d_reads, d_hashes, d_start,
                   d_prev_ok,
                   d_touched>>

\* psn/mod.rs:328.
SendVerifying1 ==
    /\ d_pc = "verifying1"
    /\ Send(Verifying, "hash1")
    /\ UNCHANGED <<d_pkg, d_body, d_disk, d_cursor, d_chunk, d_received, d_delivered,
                   d_rx_open, d_run, d_reads, d_hashes, d_start, d_fault,
                   d_prev_ok,
                   d_touched>>

\* A call of hash_file on pkg_file: Ok(true) leads to pc yes, Ok(false) to
\* pc no, an I/O error returns Tokio and the error of hash_file itself is
\* returned as it is (the ? of psn/mod.rs:330 and 381).  The cursor is left
\* where the reader stopped.
HashCall(yes, no) ==
    \/ \E blk \in ReadSizes :
          LET st == hash_file(d_disk, d_pkg.sha1sum, d_pkg.hash_whole_file, blk)
          IN  /\ d_hashes' = Append(d_hashes, st.outcome)
              /\ IF st.outcome = "hash_mismatch"
                 THEN /\ Return(HashMismatch(TRUE))
                      /\ UNCHANGED <<d_cursor, d_fault>>
                 ELSE /\ d_cursor' = st.processed_length
                      /\ d_pc' = IF st.outcome = "true" THEN yes ELSE no
                      /\ UNCHANGED <<d_result, d_fault>>
    \/ /\ Fail("Tokio")
       /\ UNCHANGED <<d_hashes, d_cursor>>

\* The download goes on though the existing file verifies.
HashExistingMutDownloadsAnyway ==
    /\ d_pc = "hash1"
    /\ HashCall("set_len", "set_len")
    /\ UNCHANGED <<d_pkg, d_body, d_disk, d_chunk, d_received, d_delivered,
                   d_sent, d_rx_open, d_run, d_reads, d_start, d_prev_ok,
                   d_touched>>

\* psn/mod.rs:330: the check of the existing file.
HashExisting ==
    /\ d_pc = "hash1"
    /\ HashCall("success", "set_len")
    /\ UNCHANGED <<d_pkg, d_body, d_disk, d_chunk, d_received, d_delivered,
                   d_sent, d_rx_open, d_run, d_reads, d_start, d_prev_ok,
                   d_touched>>

\* psn/mod.rs:331-334: pkg_file.set_len(0).
SetLen ==
    /\ d_pc = "set_len"
    /\ \/ /\ d_disk' = <<>>
          /\ d_pc' = "seek"
          /\ UNCHANGED <<d_result, d_fault>>
       \/ /\ Fail("Tokio")
          /\ UNCHANGED d_disk
    /\ UNCHANGED <<d_pkg, d_body, d_cursor, d_chunk, d_received, d_delivered,
                   d_sent, d_rx_open, d_run, d_reads, d_hashes, d_start,
                   d_prev_ok,
                   d_touched>>

\* The transfer started with the cursor where hash_file left it.
SeekStartMutNoRewind ==
    /\ d_pc = "seek"
    /\ \/ /\ d_received' = 0
          /\ d_pc' = "chunk"
          /\ UNCHANGED <<d_cursor, d_result, d_fault>>
       \/ /\ Fail("Tokio")
          /\ UNCHANGED <<d_cursor, d_received>>
    /\ UNCHANGED <<d_pkg, d_body, d_disk, d_chunk, d_delivered,
                   d_sent, d_rx_open, d_run, d_reads, d_hashes, d_start,
                   d_prev_ok,
                   d_touched>>

\* psn/mod.rs:336-341: pkg_file.seek(SeekFrom::Start(0)); received_data = 0.
SeekStart ==
    /\ d_pc = "seek"
    /\ \/ /\ d_cursor' = 0
          /\ d_received' = 0
          /\ d_pc' = "chunk"
          /\ UNCHANGED <<d_result, d_fault>>
       \/ /\ Fail("Tokio")
          /\ UNCHANGED <<d_cursor, d_received>>
    /\ UNCHANGED <<d_pkg, d_body, d_disk, d_chunk, d_delivered,
                   d_sent, d_rx_open, d_run, d_reads, d_hashes, d_start,
                   d_prev_ok,
                   d_touched>>

\* psn/mod.rs:343-349: response.chunk() returns a chunk, the end of the
\* body, or an error.
ReadChunk ==
    /\ d_pc = "chunk"
    /\ d_reads' = d_reads + 1
    /\ \/ /\ d_delivered < MaxChunks
          /\ \E c \in Chunks :
                /\ d_chunk' = c
                /\ d_received' = d_received + Len(c)
                /\ d_body' = d_body \o c
          /\ d_delivered' = d_delivered + 1
          /\ d_pc' = "progress"
          /\ UNCHANGED <<d_result, d_fault>>
       \/ /\ d_pc' = "sync"
          /\ UNCHANGED <<d_chunk, d_received, d_delivered, d_result, d_fault,
                         d_body>>
       \/ /\ Fail("Reqwest")
          /\ UNCHANGED <<d_chunk, d_received, d_delivered, d_body>>
    /\ UNCHANGED <<d_pkg, d_disk, d_cursor, d_sent, d_rx_open, d_run,
                   d_hashes, d_start, d_prev_ok,
                   d_touched>>

\* The Progress event carrying received_data instead of the chunk's length.
SendProgressMutCumulative ==
    /\ d_pc = "progress"
    /\ Send(Progress(d_received), "write")
    /\ UNCHANGED <<d_pkg, d_body, d_disk, d_cursor, d_chunk, d_received, d_delivered,
                   d_rx_open, d_run, d_reads, d_hashes, d_start, d_fault,
                   d_prev_ok,
                   d_touched>>

\* psn/mod.rs:355-357.
SendProgress ==
    /\ d_pc = "progress"
    /\ Send(Progress(Len(d_chunk)), "write")
    /\ UNCHANGED <<d_pkg, d_body, d_disk, d_cursor, d_chunk, d_received, d_delivered,
                   d_rx_open, d_run, d_reads, d_hashes, d_start, d_fault,
                   d_prev_ok,
                   d_touched>>

\* psn/mod.rs:359-362: pkg_file.write_all(chunk); a failed write may have
\* written a part of the chunk.
WriteChunk ==
    /\ d_pc = "write"
    /\ \/ /\ d_disk' = WriteAt(d_disk, d_cursor, d_chunk)
          /\ d_cursor' = d_cursor + Len(d_chunk)
          /\ d_pc' = "chunk"
          /\ UNCHANGED <<d_result, d_fault>>
       \/ \E k \in {0, Len(d_chunk) - 1} :
             /\ d_disk' = WriteAt(d_disk, d_cursor, Take(d_chunk, k))
             /\ d_cursor' = d_cursor + k
             /\ Fail("Tokio")
    /\ UNCHANGED <<d_pkg, d_body, d_chunk, d_received, d_delivered,
                   d_sent, d_rx_open, d_run, d_reads, d_hashes, d_start,
                   d_prev_ok,
                   d_touched>>

\* psn/mod.rs:365-372: pkg_file.sync_all().
SyncAll ==
    /\ d_pc = "sync"
    /\ \/ /\ d_pc' = "verifying2"
          /\ UNCHANGED <<d_result, d_fault>>
       \/ Fail("Tokio")
    /\ UNCHANGED <<d_pkg, d_body, d_disk, d_cursor, d_chunk, d_received, d_delivered,
                   d_sent, d_rx_open, d_run, d_reads, d_hashes, d_start,
                   d_prev_ok,
                   d_touched>>

\* psn/mod.rs:379.
SendVerifying2 ==
    /\ d_pc = "verifying2"
    /\ Send(Verifying, "hash2")
    /\ UNCHANGED <<d_pkg, d_body, d_disk, d_cursor, d_chunk, d_received, d_delivered,
                   d_rx_open, d_run, d_reads, d_hashes, d_start, d_fault,
                   d_prev_ok,
                   d_touched>>

\* The check of the received file with its result ignored.
HashReceivedMutIgnored ==
    /\ d_pc = "hash2"
    /\ HashCall("success", "success")
    /\ UNCHANGED <<d_pkg, d_body, d_disk, d_chunk, d_received, d_delivered,
                   d_sent, d_rx_open, d_run, d_reads, d_start, d_prev_ok,
                   d_touched>>

\* psn/mod.rs:381: the check of the received file.
HashReceived ==
    /\ d_pc = "hash2"
    /\ HashCall("success", "failure")
    /\ UNCHANGED <<d_pkg, d_body, d_disk, d_chunk, d_received, d_delivered,
                   d_sent, d_rx_open, d_run, d_reads, d_start, d_prev_ok,
                   d_touched>>

\* psn/mod.rs:382-385 and 393-399: DownloadSuccess is sent, Ok(()) returned.
SendSuccess ==
    /\ d_pc = "success"
    /\ IF d_rx_open
       THEN /\ d_sent' = Append(d_sent, DownloadSuccess)
            /\ Return("Ok")
       ELSE /\ Return("panic")
            /\ UNCHANGED d_sent
    /\ UNCHANGED <<d_pkg, d_body, d_disk, d_cursor, d_chunk, d_received, d_delivered,
                   d_rx_open, d_run, d_reads, d_hashes, d_start, d_fault,
                   d_prev_ok,
                   d_touched>>

\* HashMismatch(true) returned whatever was received.
SendFailureMutAlwaysShort ==
    /\ d_pc = "failure"
    /\ IF d_rx_open
       THEN /\ d_sent' = Append(d_sent, DownloadFailure)
            /\ Return(HashMismatch(TRUE))
       ELSE /\ Return("panic")
            /\ UNCHANGED d_sent
    /\ UNCHANGED <<d_pkg, d_body, d_disk, d_cursor, d_chunk, d_received, d_delivered,
                   d_rx_open, d_run, d_reads, d_hashes, d_start, d_fault,
                   d_prev_ok,
                   d_touched>>

\* HashMismatch returned without the DownloadFailure event.
SendFailureMutSilent ==
    /\ d_pc = "failure"
    /\ IF d_rx_open
       THEN /\ UNCHANGED d_sent
            /\ Return(HashMismatch(d_received < d_pkg.size))
       ELSE /\ Return("panic")
            /\ UNCHANGED d_sent
    /\ UNCHANGED <<d_pkg, d_body, d_disk, d_cursor, d_chunk, d_received, d_delivered,
                   d_rx_open, d_run, d_reads, d_hashes, d_start, d_fault,
                   d_prev_ok,
                   d_touched>>

\* psn/mod.rs:386-391: DownloadFailure is sent, HashMismatch returned.
SendFailure ==
    /\ d_pc = "failure"
    /\ IF d_rx_open
       THEN /\ d_sent' = Append(d_sent, DownloadFailure)
            /\ Return(HashMismatch(d_received < d_pkg.size))
       ELSE /\ Return("panic")
            /\ UNCHANGED d_sent
    /\ UNCHANGED <<d_pkg, d_body, d_disk, d_cursor, d_chunk, d_received, d_delivered,
                   d_rx_open, d_run, d_reads, d_hashes, d_start, d_fault,
                   d_prev_ok,
                   d_touched>>

\* The caller drops its receiver while the task runs (it abandons the
\* download).
DropReceiver ==
    /\ d_pc \notin {"idle", "done"}
    /\ d_rx_open
    /\ d_rx_open' = FALSE
    /\ UNCHANGED <<d_pkg, d_body, d_disk, d_cursor, d_pc, d_chunk, d_received,
                   d_delivered, d_sent, d_result, d_run, d_reads, d_hashes,
                   d_start, d_fault, d_prev_ok,
                   d_touched>>

\* Between two runs something else empties the destination file.
ExternalWrite ==
    /\ d_pc = "done"
    /\ d_run < MaxRuns
    /\ d_disk # <<>>
    /\ d_disk' = <<>>
    /\ d_touched' = TRUE
    /\ UNCHANGED <<d_pkg, d_body, d_cursor, d_pc, d_chunk, d_received, d_delivered,
                   d_sent, d_rx_open, d_result, d_run, d_reads, d_hashes,
                   d_start, d_fault, d_prev_ok>>

\* The caller invokes start_download again, for the same package and the
\* same destination path, with a new channel and a new response.
Reinvoke ==
    /\ d_pc = "done"
    /\ d_run < MaxRuns
    /\ d_run' = d_run + 1
    /\ d_prev_ok' = (d_result = "Ok" /\ ~d_touched)
    /\ d_touched' = FALSE
    /\ d_pc' = "request"
    /\ d_cursor' = 0
    /\ d_chunk' = <<>>
    /\ d_received' = 0
    /\ d_delivered' = 0
    /\ d_sent' = <<>>
    /\ d_rx_open' = TRUE
    /\ d_result' = "none"
    /\ d_reads' = 0
    /\ d_hashes' = <<>>
    /\ d_start' = d_disk
    /\ d_fault' = FALSE
    /\ d_body' = <<>>
    /\ UNCHANGED <<d_pkg, d_disk>>

(***************************************************************************)
(* The merge engine: UpdateInfo::merge_parts (psn/mod.rs:185-245) with     *)
(* copy_pkg_file (psn/utils.rs:80-107), on one UpdateInfo and one          *)
(* destination directory.                                                  *)
(*                                                                         *)
(*   m_packages  self.packages: per package its part_number, offset, the   *)
(*               file name file_name() derives from its url (url_ok: the   *)
(*               url parses and has a last path segment) and, as the       *)
(*               content of the downloaded part file, payload              *)
(*   m_fs        the merged files of the title's directory: name -> bytes  *)
(*   m_pc, m_i   the position of the task and the index of its loop        *)
(*   m_sent      the MergeStatus events sent on tx                         *)
(*   m_rx_open   whether the caller still holds the receiver               *)
(*   m_result    what merge_parts returned ("none" while it runs)          *)
(* and, recorded for the properties:                                       *)
(*   m_copies    the part numbers of the copy_pkg_file calls, in order     *)
(*   m_opens     the number of files opened or created                     *)
(*   m_fs0       the merged files when merge_parts was called              *)
(*   m_io_error  whether copy_pkg_file returned an error                   *)
(***************************************************************************)
VARIABLES m_packages, m_fs, m_pc, m_i, m_sent, m_rx_open, m_result,
          m_copies, m_opens, m_fs0, m_io_error

vars_merge == <<m_packages, m_fs, m_pc, m_i, m_sent, m_rx_open, m_result,
                m_copies, m_opens, m_fs0, m_io_error>>

\* Most parts of an update.
MaxParts == 3

\* Option<usize>.
Some(n) == [some |-> TRUE, n |-> n]
None == [some |-> FALSE, n |-> 0]

\* A file name is a sequence of pieces: a literal, or the "_<k>.pkg" that
\* ends the name of part k+1.
Lit(str) == [lit |-> str, k |-> 0]
Idx(k) == [lit |-> "_k.pkg", k |-> k]

\* psn/mod.rs:24-29: MergeStatus.
PartProgress(n) == [kind |-> "PartProgress", n |-> n]
MergeSuccess == [kind |-> "MergeSuccess", n |-> 0]

\* psn/mod.rs:214-215: file_name.ends_with(format!("_{}.pkg", k)).
EndsWith(name, k) == name # <<>> /\ name[Len(name)] = Idx(k)

\* The replacement of the last "_<k>.pkg" only.
ReplaceMutLastOnly(name, k) ==
    [j \in 1..Len(name) |-> IF j = Len(name) /\ name[j] = Idx(k)
                            THEN Lit(".pkg") ELSE name[j]]

\* psn/mod.rs:221: file_name.replace(format!("_{}.pkg", k), ".pkg"): every
\* occurrence is replaced.
Replace(name, k) ==
    [j \in 1..Len(name) |-> IF name[j] = Idx(k) THEN Lit(".pkg") ELSE name[j]]

\* psn/mod.rs:196-197: packages_sorted_by_part_number (an insertion sort by
\* part number; sort_by_key is stable).
RECURSIVE InsertByPart(_, _)
InsertByPart(pkg, sorted) ==
    IF sorted = <<>> THEN <<pkg>>
    ELSE IF pkg.part_number.n < Head(sorted).part_number.n
         THEN <<pkg>> \o sorted
         ELSE <<Head(sorted)>> \o InsertByPart(pkg, Tail(sorted))

RECURSIVE packages_sorted_by_part_number(_)
packages_sorted_by_part_number(packages) ==
    IF packages = <<>> THEN <<>>
    ELSE LET n == Len(packages)
         IN  InsertByPart(packages[n],
                          packages_sorted_by_part_number(Take(packages, n - 1)))

\* psn/mod.rs:203: the packages the loop iterates over: self.packages (the
\* sorted copy is computed and not used).
MergeLoopPackages(packages) == packages

\* The bytes of a file of m_fs (none when it does not exist).
FileBytes(fs, name) == IF name \in DOMAIN fs THEN fs[name] ELSE <<>>

\* The well-formed parts of an update with n parts of the given sizes:
\* part k is "a_<k-1>.pkg" at the offset where part k-1 ends.
RECURSIVE SumSizes(_, _)
SumSizes(sizes, k) == IF k = 0 THEN 0 ELSE sizes[k] + SumSizes(sizes, k - 1)

Part(sizes, k) ==
    [part_number |-> Some(k),
     offset |-> SumSizes(sizes, k - 1),
     name |-> <<Lit("a"), Idx(k - 1)>>,
     url_ok |-> TRUE,
     payload |-> Pad(k, sizes[k])]

\* A part with one defect, or with a name of its own: "b_<k-1>.pkg", or
\* "a_<k-1>.pkg_<k-1>.pkg".
Defects == {"none", "no_part_number", "part_zero", "name", "url", "stem",
            "twice"}
Defect(pkg, d) ==
    CASE d = "no_part_number" -> [pkg EXCEPT !.part_number = None]
      [] d = "part_zero" -> [pkg EXCEPT !.part_number = Some(0)]
      [] d = "name" -> [pkg EXCEPT !.name = <<Lit("a"), Lit(".pkg")>>]
      [] d = "url" -> [pkg EXCEPT !.url_ok = FALSE]
      [] d = "stem" -> [pkg EXCEPT !.name = <<Lit("b"), @[2]>>]
      [] d = "twice" -> [pkg EXCEPT !.name = <<@[1], @[2], @[2]>>]
      [] OTHER -> pkg

\* The merged file "a.pkg" before the merge: none, or left over from an
\* earlier merge.
Leftovers == {<<>>} \cup {Pad(9, n) : n \in {1, 2 * MaxParts + 1}}
MergedName == <<Lit("a"), Lit(".pkg")>>

MergeIdle ==
    /\ m_packages = <<>>
    /\ m_fs = <<>>
    /\ m_pc = "idle"
    /\ m_i = 0
    /\ m_sent = <<>>
    /\ m_rx_open = TRUE
    /\ m_result = "none"
    /\ m_copies = <<>>
    /\ m_opens = 0
    /\ m_fs0 = <<>>
    /\ m_io_error = FALSE

MergeInit ==
    /\ \E n \in 1..MaxParts :
       \E sizes \in [1..n -> 1..2], order \in Permutations(1..n),
          bad \in 1..n, d \in Defects :
          m_packages = [i \in 1..n |->
                          IF order[i] = bad THEN Defect(Part(sizes, order[i]), d)
                          ELSE Part(sizes, order[i])]
    /\ \/ m_fs = <<>>
       \/ \E left \in Leftovers : m_fs = (MergedName :> left)
    /\ m_fs0 = m_fs
    /\ m_pc = "check"
    /\ m_i = 0
    /\ m_sent = <<>>
    /\ m_rx_open = TRUE
    /\ m_result = "none"
    /\ m_copies = <<>>
    /\ m_opens = 0
    /\ m_io_error = FALSE

MergeReturn(r) ==
    /\ m_result' = r
    /\ m_pc' = "done"

\* The check of the part numbers passing as soon as one package carries a
\* part number.
MergeCheckMutAny ==
    /\ m_pc = "check"
    /\ IF \E j \in 1..Len(m_packages) : m_packages[j].part_number.some
       THEN /\ m_pc' = "loop"
            /\ m_i' = 1
            /\ UNCHANGED m_result
       ELSE /\ MergeReturn("PackagesUnmergable")
            /\ UNCHANGED m_i
    /\ UNCHANGED <<m_packages, m_io_error, m_fs, m_sent, m_rx_open, m_copies, m_opens,
                   m_fs0>>

\* psn/mod.rs:190-201: the check of the part numbers, the sort, the path.
MergeCheck ==
    /\ m_pc = "check"
    /\ IF \A j \in 1..Len(m_packages) : m_packages[j].part_number.some
       THEN /\ m_pc' = "loop"
            /\ m_i' = 1
            /\ UNCHANGED m_result
       ELSE /\ MergeReturn("PackagesUnmergable")
            /\ UNCHANGED m_i
    /\ UNCHANGED <<m_packages, m_io_error, m_fs, m_sent, m_rx_open, m_copies, m_opens,
                   m_fs0>>

\* copy_pkg_file with its error dropped by the caller: the merge goes on.
CopyPkgFileMutIgnoresFailure(payload, target, offset) ==
    \/ /\ m_fs' = (target :> WriteAt(FileBytes(m_fs, target), offset, payload))
                      @@ m_fs
       /\ m_opens' = m_opens + 2
       /\ m_pc' = "part_progress"
       /\ UNCHANGED <<m_result, m_io_error>>
    \/ /\ m_io_error' = TRUE
       /\ m_pc' = "part_progress"
       /\ m_opens' = m_opens + 2
       /\ UNCHANGED m_result
       /\ \E k \in 0..(Len(payload) - 1) :
             m_fs' = (target :> IF k = 0 THEN FileBytes(m_fs, target)
                                ELSE WriteAt(FileBytes(m_fs, target), offset,
                                             Take(payload, k))) @@ m_fs

\* psn/utils.rs:80-107: copy_pkg_file(src, target, offset) with the source
\* holding payload: the files are opened, the target is positioned at
\* offset when offset > 0 (at 0 otherwise) and the payload is copied.  It
\* fails before the source is opened, before the target is opened, or in
\* the copy with a part of the payload written.
CopyPkgFile(payload, target, offset) ==
    \/ /\ m_fs' = (target :> WriteAt(FileBytes(m_fs, target), offset, payload))
                      @@ m_fs
       /\ m_opens' = m_opens + 2
       /\ m_pc' = "part_progress"
       /\ UNCHANGED <<m_result, m_io_error>>
    \/ /\ MergeReturn("FileMergeFailure")
       /\ m_io_error' = TRUE
       /\ m_opens' = m_opens
       /\ UNCHANGED m_fs
    \/ /\ MergeReturn("FileMergeFailure")
       /\ m_io_error' = TRUE
       /\ m_opens' = m_opens + 1
       /\ UNCHANGED m_fs
    \/ /\ MergeReturn("FileMergeFailure")
       /\ m_io_error' = TRUE
       /\ m_opens' = m_opens + 2
       /\ \E k \in 0..(Len(payload) - 1) :
             m_fs' = (target :> IF k = 0 THEN FileBytes(m_fs, target)
                                ELSE WriteAt(FileBytes(m_fs, target), offset,
                                             Take(payload, k))) @@ m_fs

\* One iteration of the loop without the test of the end of the name.
MergePartMutNoNameCheck ==
    /\ m_pc = "loop"
    /\ LET package == MergeLoopPackages(m_packages)[m_i]
           part_number == package.part_number.n
       IN  IF ~package.url_ok
           THEN /\ MergeReturn("FilepathMismatch")
                /\ UNCHANGED <<m_fs, m_copies, m_opens, m_io_error>>
           ELSE IF part_number = 0
           THEN /\ \/ MergeReturn("panic")
                   \/ MergeReturn("FilepathMismatch")
                /\ UNCHANGED <<m_fs, m_copies, m_opens, m_io_error>>
           ELSE IF FALSE
           THEN /\ MergeReturn("FilepathMismatch")
                /\ UNCHANGED <<m_fs, m_copies, m_opens, m_io_error>>
           ELSE /\ m_copies' = Append(m_copies, part_number)
                /\ CopyPkgFile(package.payload,
                               Replace(package.name, part_number - 1),
                               package.offset)
    /\ UNCHANGED <<m_packages, m_i, m_sent, m_rx_open, m_fs0>>

\* psn/mod.rs:203-241: one iteration of the loop up to the end of
\* copy_pkg_file.  part_number - 1 underflows for part number 0: the task
\* panics (overflow checks on) or the number wraps and the name cannot end
\* with it.
MergePart ==
    /\ m_pc = "loop"
    /\ LET package == MergeLoopPackages(m_packages)[m_i]
           part_number == package.part_number.n
       IN  IF ~package.url_ok
           THEN /\ MergeReturn("FilepathMismatch")
                /\ UNCHANGED <<m_fs, m_copies, m_opens, m_io_error>>
           ELSE IF part_number = 0
           THEN /\ \/ MergeReturn("panic")
                   \/ MergeReturn("FilepathMismatch")
                /\ UNCHANGED <<m_fs, m_copies, m_opens, m_io_error>>
           ELSE IF ~EndsWith(package.name, part_number - 1)
           THEN /\ MergeReturn("FilepathMismatch")
                /\ UNCHANGED <<m_fs, m_copies, m_opens, m_io_error>>
           ELSE /\ m_copies' = Append(m_copies, part_number)
                /\ CopyPkgFile(package.payload,
                               Replace(package.name, part_number - 1),
                               package.offset)
    /\ UNCHANGED <<m_packages, m_i, m_sent, m_rx_open, m_fs0>>

\* The loop going on without the PartProgress event.
SendPartProgressMutSkips ==
    /\ m_pc = "part_progress"
    /\ IF m_rx_open
       THEN /\ m_i' = m_i + 1
            /\ m_pc' = IF m_i < Len(m_packages) THEN "loop" ELSE "success"
            /\ UNCHANGED <<m_sent, m_result>>
       ELSE /\ MergeReturn("panic")
            /\ UNCHANGED <<m_sent, m_i>>
    /\ UNCHANGED <<m_packages, m_io_error, m_fs, m_rx_open, m_copies, m_opens, m_fs0>>

\* psn/mod.rs:228-230: tx.send(PartProgress(part_number)).await.unwrap().
SendPartProgress ==
    /\ m_pc = "part_progress"
    /\ IF m_rx_open
       THEN /\ m_sent' = Append(m_sent,
                   PartProgress(MergeLoopPackages(m_packages)[m_i].part_number.n))
            /\ m_i' = m_i + 1
            /\ m_pc' = IF m_i < Len(m_packages) THEN "loop" ELSE "success"
            /\ UNCHANGED m_result
       ELSE /\ MergeReturn("panic")
            /\ UNCHANGED <<m_sent, m_i>>
    /\ UNCHANGED <<m_packages, m_io_error, m_fs, m_rx_open, m_copies, m_opens, m_fs0>>

\* psn/mod.rs:243-244: tx.send(MergeSuccess).await.unwrap(); Ok(()).
SendMergeSuccess ==
    /\ m_pc = "success"
    /\ IF m_rx_open
       THEN /\ m_sent' = Append(m_sent, MergeSuccess)
            /\ MergeReturn("Ok")
       ELSE /\ MergeReturn("panic")
            /\ UNCHANGED m_sent
    /\ UNCHANGED <<m_packages, m_io_error, m_fs, m_i, m_rx_open, m_copies, m_opens, m_fs0>>

\* The caller drops its receiver while the merge runs.
DropMergeReceiver ==
    /\ m_pc \notin {"idle", "done"}
    /\ m_rx_open
    /\ m_rx_open' = FALSE
    /\ UNCHANGED <<m_packages, m_io_error, m_fs, m_pc, m_i, m_sent, m_result, m_copies,
                   m_opens, m_fs0>>

(***************************************************************************)
(* The resolver: UpdateInfo::get_info (psn/mod.rs:87-183) with             *)
(* parse_response (psn/parser.rs:12-178) and parse_manifest_response       *)
(* (psn/manifest_parser.rs:34-58), on one serial.                          *)
(*                                                                         *)
(* A response body is the sequence of the pieces of markup and text it is  *)
(* made of; the XML reader turns it into events.  A piece manifest is the  *)
(* JSON text the server answers for a manifest_url.                        *)
(*                                                                         *)
(*   i_input       the serial get_info is called with                      *)
(*   i_pc          the position of the task                                *)
(*   i_title_id, i_platform_variant, i_url   the locals of get_info        *)
(*   i_response_txt  the body of the title manifest                        *)
(*   i_info        the UpdateInfo under construction                       *)
(*   i_parent_manifest_packages  the top-level packages not yet expanded   *)
(*   i_result      what get_info returned (kind "none" while it runs)      *)
(* and, recorded for the properties:                                       *)
(*   i_requests    the urls requested, in order                            *)
(*   i_texts       the number of response bodies received                  *)
(*   i_parse_calls the number of calls of parse_response                   *)
(*   i_manifest    the last piece manifest received                        *)
(*   i_before      info.packages before the last parse_manifest_response   *)
(*   i_expanded    per call of parse_manifest_response, in order: the      *)
(*                 top-level package and the piece manifest it was given   *)
(***************************************************************************)
VARIABLES i_input, i_pc, i_title_id, i_platform_variant, i_url,
          i_response_txt, i_info, i_parent_manifest_packages, i_result,
          i_requests, i_texts, i_parse_calls, i_manifest, i_before,
          i_expanded

vars_info == <<i_input, i_pc, i_title_id, i_platform_variant, i_url,
               i_response_txt, i_info, i_parent_manifest_packages, i_result,
               i_requests, i_texts, i_parse_calls, i_manifest, i_before,
               i_expanded>>

\* Most pieces of markup and text of a response body.
MaxTokens == 3
\* Most pieces of a piece manifest.
MaxPieces == 2

\* psn/mod.rs:248-253: parse_title_id on a string given as its characters:
\* trim, remove every '-', uppercase.
IsSpace(ch) == ch \in {" ", "\t"}

RECURSIVE TrimStart(_)
TrimStart(s) ==
    IF s # <<>> /\ IsSpace(Head(s)) THEN TrimStart(Tail(s)) ELSE s

RECURSIVE TrimEnd(_)
TrimEnd(s) ==
    IF s # <<>> /\ IsSpace(s[Len(s)]) THEN TrimEnd(Take(s, Len(s) - 1)) ELSE s

NotDash(ch) == ch # "-"

ToUpper(ch) ==
    CASE ch = "a" -> "A" [] ch = "b" -> "B" [] ch = "c" -> "C"
      [] ch = "l" -> "L" [] ch = "n" -> "N" [] ch = "p" -> "P"
      [] ch = "s" -> "S" [] ch = "u" -> "U" [] ch = "x" -> "X"
      [] OTHER -> ch

\* parse_title_id with the dashes removed before the trimming.
parse_title_idMutDashFirst(title_id) ==
    LET stripped == TrimEnd(TrimStart(SelectSeq(title_id, NotDash)))
    IN  [j \in 1..Len(stripped) |-> ToUpper(stripped[j])]

\* parse_title_id with the dashes left in.
parse_title_idMutKeepsDash(title_id) ==
    LET stripped == TrimEnd(TrimStart(title_id))
    IN  [j \in 1..Len(stripped) |-> ToUpper(stripped[j])]

parse_title_id(title_id) ==
    LET stripped == SelectSeq(TrimEnd(TrimStart(title_id)), NotDash)
    IN  [j \in 1..Len(stripped) |-> ToUpper(stripped[j])]

StartsWith(s, prefix) ==
    Len(s) >= Len(prefix) /\ Take(s, Len(prefix)) = prefix

\* psn/utils.rs:31-44.
PS3 == "PS3"
PS4 == "PS4"
NoVariant == "None"
get_platform_variant(title_id) ==
    IF \E prefix \in {<<"N", "P">>, <<"B", "L">>, <<"B", "C">>} :
          StartsWith(title_id, prefix)
    THEN PS3
    ELSE IF StartsWith(title_id, <<"C", "U", "S", "A">>) THEN PS4
    ELSE NoVariant

\* psn/utils.rs:46-77: the url of the title manifest; the PS4 url carries
\* the HMAC-SHA256 of "np_<title id>" under the fixed key, which decodes and
\* is accepted for every title id.
get_update_info_url(title_id, platform_variant) ==
    IF platform_variant = PS3
    THEN [host |-> "a0.ww.np.dl.playstation.net", title_id |-> title_id,
          hmac |-> <<>>, manifest |-> ""]
    ELSE [host |-> "gs-sec.ww.np.dl.playstation.net", title_id |-> title_id,
          hmac |-> <<"np", "_">> \o title_id, manifest |-> ""]

\* The url of a request for a piece manifest.
ManifestRequest(manifest_url) ==
    [host |-> "", title_id |-> <<>>, hmac |-> <<>>, manifest |-> manifest_url]

\* psn/mod.rs:50-58: UpdateError, and the Ok of get_info.
Err(kind) == [kind |-> kind, reason |-> ""]
UnhandledErrorResponse(reason) ==
    [kind |-> "UnhandledErrorResponse", reason |-> reason]
Running == Err("none")
OkInfo == Err("Ok")

\* The pieces a response body is made of.
Attr(key, raw) == [key |-> key, raw |-> raw]
StartEl(name, attrs) == [ev |-> "Start", name |-> name, attrs |-> attrs, raw |-> ""]
EmptyEl(name, attrs) == [ev |-> "Empty", name |-> name, attrs |-> attrs, raw |-> ""]
EndEl == [ev |-> "End", name |-> "", attrs |-> <<>>, raw |-> ""]
TextEv(raw) == [ev |-> "Text", name |-> "", attrs |-> <<>>, raw |-> raw]
\* A comment, a declaration, a processing instruction, character data.
OtherEv == [ev |-> "Other", name |-> "", attrs |-> <<>>, raw |-> ""]

\* The texts of the bodies.
Texts == {"NoSuchKey", "AccessDenied", "Not found", "A&amp;B", "&bad;",
          "Game<LF>One", " "}

\* The escaped text unescaped: an unknown entity is an error.
Unescape(raw) ==
    CASE raw = "A&amp;B" -> [ok |-> TRUE, value |-> "A&B"]
      [] raw = "&bad;" -> [ok |-> FALSE, value |-> ""]
      [] OTHER -> [ok |-> TRUE, value |-> raw]

\* psn/parser.rs:14: trim_text(true): the text with the white space around
\* it removed.
TrimText(raw) == IF raw = " " THEN "" ELSE raw

\* psn/mod.rs:127-130: title.replace("\n", " ").
ReplaceNewline(title) == IF title = "Game<LF>One" THEN "Game One" ELSE title

\* value.parse::<u64>().unwrap_or_default() (psn/parser.rs:61).
ParseU64(value) ==
    CASE value = "1" -> 1 [] value = "3" -> 3 [] OTHER -> 0

\* name.starts_with("TITLE") (psn/parser.rs:105).
StartsWithTITLE(name) == name \in {"TITLE", "TITLE_01"}

\* The attributes of a package element.
PackageAttrs ==
    <<Attr("version", "01.00"), Attr("size", "3"), Attr("sha1sum", "abc"),
      Attr("url", "http://h/a.pkg"), Attr("manifest_url", "http://h/a.json")>>

Tokens ==
    {StartEl("titlepatch", <<Attr("titleid", "CUSA0")>>),
     StartEl("tag", <<Attr("name", "t")>>),
     StartEl("package", PackageAttrs),
     EmptyEl("package", PackageAttrs),
     StartEl("package", <<Attr("version", "02.00"),
                          Attr("manifest_url", "http://h/b.json")>>),
     StartEl("package", <<Attr("version", "&bad;")>>),
     StartEl("package", <<Attr("size", "1"), Attr("version", "03.00")>>),
     StartEl("package", <<Attr("url", "http://h/c.pkg")>>),
     StartEl("TITLE_01", <<>>),
     StartEl("Error", <<>>),
     StartEl("Code", <<>>),
     StartEl("Message", <<>>),
     EndEl,
     OtherEv}
    \cup {TextEv(raw) : raw \in Texts}

Bodies == UNION {[1..k -> Tokens] : k \in 0..MaxTokens}

\* response_txt.is_empty() (psn/mod.rs:108).
IsEmpty(response_txt) == response_txt = <<>>

\* response_txt.contains("Not found") (psn/mod.rs:112): the substring is in
\* a text or in the value of an attribute.
HasNotFound(str) == str \in {"Not found"}

ContainsNotFoundMutNever(response_txt) == FALSE

ContainsNotFound(response_txt) ==
    \E j \in 1..Len(response_txt) :
        \/ HasNotFound(response_txt[j].raw)
        \/ \E a \in 1..Len(response_txt[j].attrs) :
              HasNotFound(response_txt[j].attrs[a].raw)

\* psn/parser.rs:13-14, 24: the events the reader yields for a body: text
\* is trimmed, and white space alone is no event.
IsEvent(tok) == tok.ev = "Text" => TrimText(tok.raw) # ""
Events(response) ==
    LET kept == SelectSeq(response, IsEvent)
    IN  [j \in 1..Len(kept) |->
            IF kept[j].ev = "Text"
            THEN TextEv(TrimText(kept[j].raw)) ELSE kept[j]]

\* psn/mod.rs:69-78 and 267-279.
Version(base) == [base |-> base, part |-> 0, of |-> 0]
UpdateInfoEmpty(platform_variant) ==
    [title_id |-> "", tag_name |-> "", titles |-> <<>>, packages |-> <<>>,
     platform_variant |-> platform_variant]
PackageInfoEmpty ==
    [url |-> "", size |-> 0, version |-> Version(""), sha1sum |-> "",
     hash_whole_file |-> FALSE, manifest_url |-> "", offset |-> 0,
     part_number |-> None]

\* The state of parse_response: the info, its flags, and its result ("" while
\* the loop runs).
ParseState(info) ==
    [info |-> info, depth |-> 0, title_element |-> FALSE,
     err_encountered |-> FALSE, err_code_encountered |-> FALSE,
     result |-> "", reason |-> ""]

ParseFail(st, result, reason) ==
    [st EXCEPT !.result = result, !.reason = reason]

SetLast(packages, field, value) ==
    [packages EXCEPT ![Len(packages)] = [@ EXCEPT ![field] = value]]

\* psn/parser.rs:48-88 and 116-150: the attributes of a package element, in
\* order; manifest_url is read in the start form only.
RECURSIVE PackageAttributes(_, _, _)
PackageAttributes(st, attrs, start_form) ==
    IF attrs = <<>> \/ st.result # "" THEN st
    ELSE LET attribute == Head(attrs)
             value == Unescape(attribute.raw)
             packages == st.info.packages
             known == attribute.key \in
                         ({"size", "sha1sum", "url"}
                          \cup (IF start_form THEN {"manifest_url"} ELSE {}))
             next ==
                 IF attribute.key = "version"
                 THEN IF ~value.ok THEN ParseFail(st, "XmlParsing", "")
                      ELSE [st EXCEPT !.info.packages =
                               Append(packages,
                                      [PackageInfoEmpty EXCEPT
                                          !.version = Version(value.value)])]
                 ELSE IF known /\ packages # <<>>
                 THEN IF ~value.ok THEN ParseFail(st, "XmlParsing", "")
                      ELSE [st EXCEPT !.info.packages =
                               SetLast(packages, attribute.key,
                                       IF attribute.key = "size"
                                       THEN ParseU64(value.value)
                                       ELSE value.value)]
                 ELSE st
         IN  PackageAttributes(next, Tail(attrs), start_form)

\* psn/parser.rs:30-36 and 39-45: the last attribute of the given key that
\* unescapes is stored.
RECURSIVE StoreAttribute(_, _, _, _)
StoreAttribute(info, attrs, key, field) ==
    IF attrs = <<>> THEN info
    ELSE LET attribute == Head(attrs)
             value == Unescape(attribute.raw)
         IN  StoreAttribute(
                 IF attribute.key = key /\ value.ok
                 THEN [info EXCEPT ![field] = value.value] ELSE info,
                 Tail(attrs), key, field)

\* psn/parser.rs:24-166: one iteration of the event loop.
ParseEvent(st, e) ==
    CASE e.ev = "Start" ->
            LET s == [st EXCEPT !.depth = @ + 1]
            IN  CASE e.name = "titlepatch" ->
                        [s EXCEPT !.info =
                            StoreAttribute(@, e.attrs, "titleid", "title_id")]
                  [] e.name = "tag" ->
                        [s EXCEPT !.info =
                            StoreAttribute(@, e.attrs, "name", "tag_name")]
                  [] e.name = "package" ->
                        PackageAttributes(s, e.attrs, TRUE)
                  [] e.name = "Error" -> [s EXCEPT !.err_encountered = TRUE]
                  [] e.name = "Code" ->
                        IF ~s.err_encountered THEN s
                        ELSE [s EXCEPT !.err_code_encountered = TRUE]
                  [] OTHER ->
                        IF StartsWithTITLE(e.name)
                        THEN [s EXCEPT !.title_element = TRUE] ELSE s
      [] e.ev = "End" -> [st EXCEPT !.depth = @ - 1]
      [] e.ev = "Empty" ->
            IF e.name = "package"
            THEN PackageAttributes(st, e.attrs, FALSE) ELSE st
      [] e.ev = "Text" ->
            LET text == Unescape(e.raw)
            IN  IF st.title_element
                THEN IF ~text.ok THEN ParseFail(st, "XmlParsing", "")
                     ELSE [st EXCEPT !.title_element = FALSE,
                                     !.info.titles = Append(@, text.value)]
                ELSE IF st.err_code_encountered
                THEN IF ~text.ok THEN ParseFail(st, "XmlParsing", "")
                     ELSE ParseFail(st, "ErrorCode", text.value)
                ELSE st
      [] OTHER -> st

RECURSIVE ParseLoop(_, _)
ParseLoop(st, events) ==
    IF st.result # "" THEN st
    ELSE IF events = <<>> THEN [st EXCEPT !.result = "Ok"]
    ELSE ParseLoop(ParseEvent(st, Head(events)), Tail(events))

\* psn/parser.rs:12-178.
parse_response(response, info) ==
    ParseLoop(ParseState(info), Events(response))

\* The mapping of an error code with NoSuchKey not told apart.
MapErrorCodeMutUnhandled(reason) == UnhandledErrorResponse(reason)

\* psn/mod.rs:133-139.
MapErrorCode(reason) ==
    IF reason = "NoSuchKey" THEN Err("InvalidSerial")
    ELSE UnhandledErrorResponse(reason)

\* The check of the parse result with the title id not looked at.
NothingParsedMutNoTitleId(info) == info.packages = <<>>

\* psn/mod.rs:119: info.title_id.is_empty() || info.packages.is_empty().
NothingParsed(info) == info.title_id = "" \/ info.packages = <<>>

\* psn/mod.rs:108-151: what get_info does with the body of the title
\* manifest, up to its return or its first piece manifest request.
Respond(response_txt, platform_variant) ==
    IF IsEmpty(response_txt)
    THEN [result |-> Err("NoUpdatesAvailable"), parse_calls |-> 0,
          info |-> UpdateInfoEmpty(platform_variant)]
    ELSE IF ContainsNotFound(response_txt)
    THEN [result |-> Err("InvalidSerial"), parse_calls |-> 0,
          info |-> UpdateInfoEmpty(platform_variant)]
    ELSE LET parsed == parse_response(response_txt,
                                      UpdateInfoEmpty(platform_variant))
             info == parsed.info
         IN  [parse_calls |-> 1,
              info |-> IF parsed.result # "Ok" THEN info
                       ELSE [info EXCEPT !.titles =
                                [j \in 1..Len(@) |-> ReplaceNewline(@[j])]],
              result |->
                 CASE parsed.result = "ErrorCode" -> MapErrorCode(parsed.reason)
                   [] parsed.result = "XmlParsing" -> Err("XmlParsing")
                   [] OTHER ->
                        IF NothingParsed(info)
                        THEN Err("NoUpdatesAvailable")
                        ELSE IF platform_variant # PS4 THEN OkInfo
                        ELSE Running]

\* A piece manifest: well-formed JSON of the expected shape, or not.
PieceUrl(k) ==
    CASE k = 1 -> "http://h/p_0.pkg" [] k = 2 -> "http://h/p_1.pkg"
      [] OTHER -> "http://h/p_n.pkg"
Piece(k) ==
    [url |-> PieceUrl(k), file_offset |-> k - 1, file_size |-> 1,
     hash_value |-> "h"]
Manifests ==
    {[well_formed |-> w, number_of_split_files |-> n,
      pieces |-> [k \in 1..p |-> Piece(k)]] :
        w \in BOOLEAN, n \in 0..MaxPieces, p \in 0..MaxPieces}
NoManifest ==
    [well_formed |-> FALSE, number_of_split_files |-> 0, pieces |-> <<>>]

\* The package of a piece keeping the manifest_url of its parent.
PartPackageMutKeepsPointer(manifest, parent_manifest_package, idx) ==
    LET piece == manifest.pieces[idx + 1]
    IN  [PackageInfoEmpty EXCEPT
            !.version =
                IF manifest.number_of_split_files > 1
                THEN [base |-> parent_manifest_package.version.base,
                      part |-> idx + 1,
                      of |-> manifest.number_of_split_files]
                ELSE parent_manifest_package.version,
            !.sha1sum = piece.hash_value,
            !.url = piece.url,
            !.size = piece.file_size,
            !.hash_whole_file = TRUE,
            !.manifest_url = parent_manifest_package.manifest_url,
            !.offset = piece.file_offset]

\* psn/manifest_parser.rs:41-55: the package of piece idx (from 0).
PartPackage(manifest, parent_manifest_package, idx) ==
    LET piece == manifest.pieces[idx + 1]
    IN  [PackageInfoEmpty EXCEPT
            !.version =
                IF manifest.number_of_split_files > 1
                THEN [base |-> parent_manifest_package.version.base,
                      part |-> idx + 1,
                      of |-> manifest.number_of_split_files]
                ELSE parent_manifest_package.version,
            !.sha1sum = piece.hash_value,
            !.url = piece.url,
            !.size = piece.file_size,
            !.hash_whole_file = TRUE,
            !.offset = piece.file_offset]

\* parse_manifest_response with an empty pieces list accepted.
parse_manifest_responseMutEmptyOk(response, parent_manifest_package, info) ==
    IF ~response.well_formed
    THEN [result |-> "JsonParsing", info |-> info]
    ELSE [result |-> "Ok",
          info |-> [info EXCEPT !.packages = @ \o
                       [k \in 1..Len(response.pieces) |->
                           PartPackage(response, parent_manifest_package,
                                       k - 1)]]]

\* parse_manifest_response with the pieces put in front of info.packages.
parse_manifest_responseMutPrepend(response, parent_manifest_package, info) ==
    IF ~response.well_formed
    THEN [result |-> "JsonParsing", info |-> info]
    ELSE IF response.pieces = <<>>
    THEN [result |-> "NoPartsFound", info |-> info]
    ELSE [result |-> "Ok",
          info |-> [info EXCEPT !.packages =
                       [k \in 1..Len(response.pieces) |->
                           PartPackage(response, parent_manifest_package,
                                       k - 1)] \o @]]

\* psn/manifest_parser.rs:34-58.
parse_manifest_response(response, parent_manifest_package, info) ==
    IF ~response.well_formed
    THEN [result |-> "JsonParsing", info |-> info]
    ELSE IF response.pieces = <<>>
    THEN [result |-> "NoPartsFound", info |-> info]
    ELSE [result |-> "Ok",
          info |-> [info EXCEPT !.packages = @ \o
                       [k \in 1..Len(response.pieces) |->
                           PartPackage(response, parent_manifest_package,
                                       k - 1)]]]

\* The serials get_info is called with.
Serials ==
    {<<"B", "C", "0">>,
     <<"B", "L", "0">>,
     <<" ", "c", "u", "s", "a", "-", "0", "\t">>,
     <<"n", "p", "-", "0">>,
     <<"X", "0">>,
     <<"-", " ", "b", "c">>,
     <<"b", "c", "u", "s", "-", "9", "8", "1", "4", "8">>,
     <<"c", "u", "s", "a", "0", "0", "0", "0", "1">>,
     <<"x", "x", "0", "0", "0", "0", "0">>}

InfoIdle ==
    /\ i_input = <<>>
    /\ i_pc = "idle"
    /\ i_title_id = <<>>
    /\ i_platform_variant = NoVariant
    /\ i_url = ManifestRequest("")
    /\ i_response_txt = <<>>
    /\ i_info = UpdateInfoEmpty(NoVariant)
    /\ i_parent_manifest_packages = <<>>
    /\ i_result = Running
    /\ i_requests = <<>>
    /\ i_texts = 0
    /\ i_parse_calls = 0
    /\ i_manifest = NoManifest
    /\ i_before = <<>>
    /\ i_expanded = <<>>

InfoInit ==
    /\ i_input \in Serials
    /\ i_pc = "start"
    /\ i_title_id = <<>>
    /\ i_platform_variant = NoVariant
    /\ i_url = ManifestRequest("")
    /\ i_response_txt = <<>>
    /\ i_info = UpdateInfoEmpty(NoVariant)
    /\ i_parent_manifest_packages = <<>>
    /\ i_result = Running
    /\ i_requests = <<>>
    /\ i_texts = 0
    /\ i_parse_calls = 0
    /\ i_manifest = NoManifest
    /\ i_before = <<>>
    /\ i_expanded = <<>>

InfoReturn(r) ==
    /\ i_result' = r
    /\ i_pc' = "done"

\* psn/mod.rs:87-103: the serial is normalized, its platform and the url of
\* its manifest are determined, the client is built.
GetInfoStart ==
    /\ i_pc = "start"
    /\ LET title_id == parse_title_id(i_input)
           platform_variant == get_platform_variant(title_id)
       IN  /\ i_title_id' = title_id
           /\ i_platform_variant' = platform_variant
           /\ IF platform_variant = NoVariant
              THEN /\ InfoReturn(Err("InvalidSerial"))
                   /\ UNCHANGED i_url
              ELSE /\ i_url' = get_update_info_url(title_id, platform_variant)
                   /\ \/ /\ i_pc' = "send"
                         /\ UNCHANGED i_result
                      \/ InfoReturn(Err("Reqwest"))
    /\ UNCHANGED <<i_input, i_response_txt, i_info,
                   i_parent_manifest_packages, i_requests, i_texts,
                   i_parse_calls, i_manifest, i_before, i_expanded>>

\* psn/mod.rs:105: client.get(url).send().
GetInfoSend ==
    /\ i_pc = "send"
    /\ i_requests' = Append(i_requests, i_url)
    /\ \/ /\ i_pc' = "text"
          /\ UNCHANGED i_result
       \/ InfoReturn(Err("Reqwest"))
    /\ UNCHANGED <<i_input, i_title_id, i_platform_variant, i_url,
                   i_response_txt, i_info, i_parent_manifest_packages,
                   i_texts, i_parse_calls, i_manifest, i_before, i_expanded>>

\* psn/mod.rs:106-151: response.text(), the checks of the body, the parse,
\* and for PS4 the packages moved out of the info.
GetInfoText ==
    /\ i_pc = "text"
    /\ \/ /\ InfoReturn(Err("Reqwest"))
          /\ UNCHANGED <<i_response_txt, i_info, i_parent_manifest_packages,
                         i_texts, i_parse_calls>>
       \/ \E response_txt \in Bodies :
             LET r == Respond(response_txt, i_platform_variant)
             IN  /\ i_response_txt' = response_txt
                 /\ i_texts' = i_texts + 1
                 /\ i_parse_calls' = i_parse_calls + r.parse_calls
                 /\ IF r.result = Running
                    THEN /\ i_parent_manifest_packages' = r.info.packages
                         /\ i_info' = [r.info EXCEPT !.packages = <<>>]
                         /\ i_pc' = "manifest_send"
                         /\ UNCHANGED i_result
                    ELSE /\ i_info' = r.info
                         /\ InfoReturn(r.result)
                         /\ UNCHANGED i_parent_manifest_packages
    /\ UNCHANGED <<i_input, i_title_id, i_platform_variant, i_url,
                   i_requests, i_manifest, i_before, i_expanded>>

\* psn/mod.rs:153-158: client.get(&package.manifest_url).send() for the
\* next top-level package; an empty manifest_url is no url.
GetInfoManifestSend ==
    /\ i_pc = "manifest_send"
    /\ LET package == Head(i_parent_manifest_packages)
       IN  /\ i_requests' =
                 Append(i_requests, ManifestRequest(package.manifest_url))
           /\ \/ /\ package.manifest_url # ""
                 /\ i_pc' = "manifest_text"
                 /\ UNCHANGED i_result
              \/ InfoReturn(Err("Reqwest"))
    /\ UNCHANGED <<i_input, i_title_id, i_platform_variant, i_url,
                   i_response_txt, i_info, i_parent_manifest_packages,
                   i_texts, i_parse_calls, i_manifest, i_before, i_expanded>>

\* The loop over the piece manifests going on after a manifest that is not
\* well-formed JSON.
GetInfoManifestTextMutSkipsBad ==
    /\ i_pc = "manifest_text"
    /\ \/ /\ InfoReturn(Err("Reqwest"))
          /\ UNCHANGED <<i_info, i_parent_manifest_packages, i_texts,
                         i_manifest, i_before, i_expanded>>
       \/ \E manifest_response_txt \in Manifests :
             LET package == Head(i_parent_manifest_packages)
                 r == parse_manifest_response(manifest_response_txt, package,
                                              i_info)
             IN  /\ i_manifest' = manifest_response_txt
                 /\ i_before' = i_info.packages
                 /\ i_expanded' =
                       Append(i_expanded,
                              [package |-> package,
                               manifest |-> manifest_response_txt])
                 /\ i_texts' = i_texts + 1
                 /\ i_info' = r.info
                 /\ i_parent_manifest_packages' =
                       Tail(i_parent_manifest_packages)
                 /\ CASE r.result = "NoPartsFound" ->
                            InfoReturn(Err("NoUpdatesAvailable"))
                      [] OTHER ->
                            IF Tail(i_parent_manifest_packages) = <<>>
                            THEN InfoReturn(OkInfo)
                            ELSE /\ i_pc' = "manifest_send"
                                 /\ UNCHANGED i_result
    /\ UNCHANGED <<i_input, i_title_id, i_platform_variant, i_url,
                   i_response_txt, i_requests, i_parse_calls>>

\* psn/mod.rs:159-182: manifest_response.text(), parse_manifest_response,
\* and the next iteration or the return.
GetInfoManifestText ==
    /\ i_pc = "manifest_text"
    /\ \/ /\ InfoReturn(Err("Reqwest"))
          /\ UNCHANGED <<i_info, i_parent_manifest_packages, i_texts,
                         i_manifest, i_before, i_expanded>>
       \/ \E manifest_response_txt \in Manifests :
             LET package == Head(i_parent_manifest_packages)
                 r == parse_manifest_response(manifest_response_txt, package,
                                              i_info)
             IN  /\ i_manifest' = manifest_response_txt
                 /\ i_before' = i_info.packages
                 /\ i_expanded' =
                       Append(i_expanded,
                              [package |-> package,
                               manifest |-> manifest_response_txt])
                 /\ i_texts' = i_texts + 1
                 /\ i_info' = r.info
                 /\ i_parent_manifest_packages' =
                       Tail(i_parent_manifest_packages)
                 /\ CASE r.result = "NoPartsFound" ->
                            InfoReturn(Err("NoUpdatesAvailable"))
                      [] r.result = "JsonParsing" ->
                            InfoReturn(Err("ManifestParsing"))
                      [] OTHER ->
                            IF Tail(i_parent_manifest_packages) = <<>>
                            THEN InfoReturn(OkInfo)
                            ELSE /\ i_pc' = "manifest_send"
                                 /\ UNCHANGED i_result
    /\ UNCHANGED <<i_input, i_title_id, i_platform_variant, i_url,
                   i_response_txt, i_requests, i_parse_calls>>

(***************************************************************************)
(* The update query of the library crate: libupdates::get_updates          *)
(* (libupdates/src/lib.rs:81-117), on one serial.                          *)
(*                                                                         *)
(* A response is a status and a body; a body is the empty text, white      *)
(* space, text that is not XML, or a document described by what the        *)
(* deserializer looks for in it.                                           *)
(*                                                                         *)
(*   u_input       the serial get_updates is called with                   *)
(*   u_pc          the position of the task                                *)
(*   u_serial, u_query_url   the locals of get_updates                     *)
(*   u_response    the response received: its status (0: none yet) and     *)
(*                 the body it carries                                     *)
(*   u_result      what get_updates returned (kind "none" while it runs)   *)
(* and, recorded for the properties:                                       *)
(*   u_requests    the urls requested, in order                            *)
(*   u_body_reads  the number of bodies read with response.text()          *)
(***************************************************************************)
VARIABLES u_input, u_pc, u_serial, u_query_url, u_response, u_result,
          u_requests, u_body_reads

vars_upd == <<u_input, u_pc, u_serial, u_query_url, u_response, u_result,
              u_requests, u_body_reads>>

\* Most package elements of a document.
MaxPackages == 2

\* libupdates/src/lib.rs:82: to_ascii_uppercase on a string given as its
\* characters.
ToAsciiUppercase(ch) ==
    CASE ch = "b" -> "B" [] ch = "c" -> "C" [] ch = "l" -> "L"
      [] ch = "s" -> "S" [] ch = "u" -> "U"
      [] OTHER -> ch

\* libupdates/src/lib.rs:89: the url of the query.
QueryUrl(serial) ==
    <<"https://a0.ww.np.dl.playstation.net/tpl/np/">> \o serial \o <<"/">>
        \o serial \o <<"-ver.xml">>

\* A body: its kind of text and, for a document, whether the titleid
\* attribute, the tag element and its name attribute are there, the number
\* of package elements, and whether each of them has its version, size,
\* sha1sum and url.
Body(text, titleid, tag, name, package, complete) ==
    [text |-> text, titleid |-> titleid, tag |-> tag, name |-> name,
     package |-> package, complete |-> complete]
EmptyBody == Body("", FALSE, FALSE, FALSE, 0, FALSE)
ResponseBodies ==
    {EmptyBody,
     Body(" ", FALSE, FALSE, FALSE, 0, FALSE),
     Body("<titlepatch", FALSE, FALSE, FALSE, 0, FALSE)}
    \cup {Body("<titlepatch>", titleid, FALSE, FALSE, 0, FALSE) :
             titleid \in BOOLEAN}
    \cup {Body("<titlepatch>", titleid, TRUE, name, 0, FALSE) :
             titleid \in BOOLEAN, name \in BOOLEAN}
    \cup {Body("<titlepatch>", titleid, TRUE, name, package, complete) :
             titleid \in BOOLEAN, name \in BOOLEAN,
             package \in 1..MaxPackages, complete \in BOOLEAN}

\* The statuses of the responses.
Statuses == {200, 404, 500}

NoResponse == [status |-> 0, body |-> EmptyBody]

\* libupdates/src/lib.rs:5-35 and error.rs:3-9: UpdateData, PSNError, and
\* the results of get_updates.
UpdateData(titleid, name, package) ==
    [titleid |-> titleid, name |-> name, package |-> package]
NoData == UpdateData("", "", 0)
UpdatesOk(data) == [kind |-> "Ok", data |-> data]
PSNError(kind) == [kind |-> kind, data |-> NoData]
UpdatesRunning == PSNError("none")

\* libupdates/src/lib.rs:5-45, 110: serde_xml_rs::from_str into UpdateData:
\* the text must be a document, and every field that is not an Option must
\* be there (titleid, tag, its name, at least one package, and version,
\* size, sha1sum and url of every package).
from_str(response_body) ==
    IF response_body.text = "<titlepatch>"
          /\ response_body.titleid /\ response_body.tag /\ response_body.name
          /\ response_body.package > 0 /\ response_body.complete
    THEN UpdatesOk(UpdateData("BCUS0", "01", response_body.package))
    ELSE PSNError("SerdeXmlErr")

\* The serials get_updates is called with.
UpdateSerials == {<<"b", "l", "u", "s", "0">>, <<"B", "C", "0">>, <<"x">>}

UpdatesIdle ==
    /\ u_input = <<>>
    /\ u_pc = "idle"
    /\ u_serial = <<>>
    /\ u_query_url = <<>>
    /\ u_response = NoResponse
    /\ u_result = UpdatesRunning
    /\ u_requests = <<>>
    /\ u_body_reads = 0

UpdatesInit ==
    /\ u_input \in UpdateSerials
    /\ u_pc = "start"
    /\ u_serial = <<>>
    /\ u_query_url = <<>>
    /\ u_response = NoResponse
    /\ u_result = UpdatesRunning
    /\ u_requests = <<>>
    /\ u_body_reads = 0

UpdatesReturn(r) ==
    /\ u_result' = r
    /\ u_pc' = "done"

\* libupdates/src/lib.rs:82-93: the serial in capitals, the client, the url
\* and the request.
GetUpdatesBuild ==
    /\ u_pc = "start"
    /\ LET serial == [j \in 1..Len(u_input) |-> ToAsciiUppercase(u_input[j])]
       IN  /\ u_serial' = serial
           /\ \/ /\ u_query_url' = QueryUrl(serial)
                 /\ u_pc' = "execute"
                 /\ UNCHANGED u_result
              \/ /\ UpdatesReturn(PSNError("ReqwestErr"))
                 /\ UNCHANGED u_query_url
    /\ UNCHANGED <<u_input, u_response, u_requests, u_body_reads>>

\* The status of a response tested after its body.
GetUpdatesExecuteMutStatusNotTested ==
    /\ u_pc = "execute"
    /\ u_requests' = Append(u_requests, u_query_url)
    /\ \/ /\ UpdatesReturn(PSNError("ReqwestErr"))
          /\ UNCHANGED u_response
       \/ \E status \in Statuses, body \in ResponseBodies :
             /\ u_response' = [status |-> status, body |-> body]
             /\ u_pc' = "text"
             /\ UNCHANGED u_result
    /\ UNCHANGED <<u_input, u_serial, u_query_url, u_body_reads>>

\* libupdates/src/lib.rs:95-102: client.execute(request), and the test of
\* the status of the response.
GetUpdatesExecute ==
    /\ u_pc = "execute"
    /\ u_requests' = Append(u_requests, u_query_url)
    /\ \/ /\ UpdatesReturn(PSNError("ReqwestErr"))
          /\ UNCHANGED u_response
       \/ \E status \in Statuses, body \in ResponseBodies :
             /\ u_response' = [status |-> status, body |-> body]
             /\ IF status = 404
                THEN UpdatesReturn(PSNError("NotFound"))
                ELSE /\ u_pc' = "text"
                     /\ UNCHANGED u_result
    /\ UNCHANGED <<u_input, u_serial, u_query_url, u_body_reads>>

\* libupdates/src/lib.rs:104-116: response.text(), then the body
\* deserialized unless it is empty.
GetUpdatesText ==
    /\ u_pc = "text"
    /\ \/ /\ UpdatesReturn(PSNError("ReqwestErr"))
          /\ UNCHANGED u_body_reads
       \/ LET response_body == u_response.body
          IN  /\ u_body_reads' = u_body_reads + 1
              /\ IF response_body.text # ""
                 THEN UpdatesReturn(from_str(response_body))
                 ELSE UpdatesReturn(PSNError("NoUpdates"))
    /\ UNCHANGED <<u_input, u_serial, u_query_url, u_response, u_requests>>

(***************************************************************************)
(* parse_response, one reader result at a time (psn/parser.rs).            *)
(***************************************************************************)
VARIABLES p_reader, p_read, p_st, p_pc
vars_parse == <<p_reader, p_read, p_st, p_pc>>

MaxResults == 5

\* What read_event_into answers besides the events of the body: an error,
\* ill-formed markup (the reader has consumed it and goes on) or a syntax
\* error (the reader is done: every later call answers Eof); and Eof.
ReaderErr(kind) == [ev |-> "Err", name |-> kind, attrs |-> <<>>, raw |-> ""]
EofEv == [ev |-> "Eof", name |-> "", attrs |-> <<>>, raw |-> ""]

ReaderResults ==
    {StartEl("Error", <<>>), StartEl("Code", <<>>), StartEl("Message", <<>>),
     StartEl("TITLE_01", <<>>), EmptyEl("Error", <<>>), EndEl,
     TextEv("NoSuchKey"), TextEv("&bad;"),
     ReaderErr("IllFormed"), ReaderErr("Syntax")}

\* psn/parser.rs:24: reader.read_event_into(&mut event_buf): the result of
\* the call and the reader after it.
read_event_into(reader) ==
    IF reader = <<>> THEN [event |-> EofEv, reader |-> <<>>]
    ELSE [event |-> Head(reader),
          reader |-> IF Head(reader) = ReaderErr("Syntax") THEN <<>>
                     ELSE Tail(reader)]

ParseIdle ==
    /\ p_reader = <<>>
    /\ p_read = <<>>
    /\ p_st = ParseState(UpdateInfoEmpty(NoVariant))
    /\ p_pc = "idle"

\* psn/parser.rs:12-21: the reader over the response, the flags cleared.
ParseInit ==
    /\ p_reader \in UNION {[1..k -> ReaderResults] : k \in 0..MaxResults}
    /\ p_read = <<>>
    /\ p_st = ParseState(UpdateInfoEmpty(NoVariant))
    /\ p_pc = "loop"

\* psn/parser.rs:23-167: one iteration of the loop on a result of the
\* given kinds: the arm of the match runs, and the function returns when the
\* arm returned an error.
ParseIteration(kinds) ==
    LET read == read_event_into(p_reader)
        st == ParseEvent(p_st, read.event)
    IN  /\ p_pc = "loop"
        /\ read.event.ev \in kinds
        /\ p_reader' = read.reader
        /\ p_read' = Append(p_read, read.event)
        /\ p_st' = st
        /\ p_pc' = IF st.result # "" THEN "done" ELSE "loop"

\* psn/parser.rs:25-110.
ParseStart == ParseIteration({"Start"})
\* psn/parser.rs:111-113.
ParseEnd == ParseIteration({"End"})
\* psn/parser.rs:114-152.
ParseEmpty == ParseIteration({"Empty"})
\* psn/parser.rs:153-163.
ParseText == ParseIteration({"Text"})
\* The arm of the other results with the result left in the reader.
ParseIgnoredMutRereads ==
    /\ p_pc = "loop"
    /\ read_event_into(p_reader).event.ev \in {"Err", "Other"}
    /\ UNCHANGED vars_parse

\* psn/parser.rs:165: every other result, a reader error included.
ParseIgnored == ParseIteration({"Err", "Other"})

\* psn/parser.rs:164 and 169-177: Eof leaves the loop and the function
\* returns Ok(()).
ParseEof ==
    LET read == read_event_into(p_reader)
    IN  /\ p_pc = "loop"
        /\ read.event.ev = "Eof"
        /\ p_read' = Append(p_read, read.event)
        /\ p_st' = [p_st EXCEPT !.result = "Ok"]
        /\ p_pc' = "done"
        /\ UNCHANGED p_reader

(***************************************************************************)
(* The egui front end (egui/mod.rs): the download queue, the merge queue,  *)
(* their tasks and the frames that poll them.                              *)
(***************************************************************************)
VARIABLES g_update, g_pc, g_download_queue, g_tasks, g_files,
          g_completed_downloads, g_failed_downloads, g_account,
          g_merge_queue, g_merge_tasks, g_completed_merges, g_failed_merges
vars_gui == <<g_update, g_pc, g_download_queue, g_tasks, g_files,
              g_completed_downloads, g_failed_downloads, g_account,
              g_merge_queue, g_merge_tasks, g_completed_merges,
              g_failed_merges>>

MaxStarts == 3
MaxMergeStarts == 2
MaxProgress == 1
MaxUpdatePackages == 2

\* tokio::sync::mpsc::channel(10) (egui/mod.rs:414 and 440): the slots of
\* a channel, scaled.
ChannelSlots == 1

\* The update on screen: its title id and variant, and its packages, told
\* apart by PackageInfo::id (psn/mod.rs:281-286).
TitleId == "CUSA0"
Update(platform_variant, packages) ==
    [title_id |-> TitleId, platform_variant |-> platform_variant,
     packages |-> packages]
NoUpdate == Update(NoVariant, 0)

\* egui/mod.rs:413-437: the ActiveDownload of a new download and the task
\* behind its promise, with the channel between them.
ActiveDownload(serial, pkg_id) ==
    [serial |-> serial, title_id |-> TitleId, pkg_id |-> pkg_id,
     last_received_status |-> "Verifying"]
DownloadTask(pkg_id) ==
    [pkg_id |-> pkg_id, pc |-> "request", channel |-> <<>>, chunks |-> 0,
     promise |-> "pending"]

\* egui/mod.rs:439-458.
ActiveMerge(serial) ==
    [serial |-> serial, title_id |-> TitleId, part_progress |-> 0]
MergeTask ==
    [pc |-> "part", part |-> 1, channel |-> <<>>, promise |-> "pending",
     chunks |-> 0]

\* A task whose ActiveDownload or ActiveMerge was removed: the promise and
\* the receiver are dropped with it.
Dropped(task) == [task EXCEPT !.pc = "dropped", !.channel = <<>>, !.chunks = 0]

\* egui/mod.rs:872-878: the first download of the queue with the identity.
RECURSIVE FindDownload(_, _, _)
FindDownload(queue, pkg_id, j) ==
    IF j > Len(queue) THEN 0
    ELSE IF queue[j].title_id = TitleId /\ queue[j].pkg_id = pkg_id THEN j
    ELSE FindDownload(queue, pkg_id, j + 1)
get_active_download(queue, pkg_id) == FindDownload(queue, pkg_id, 1)

Contains(list, x) == \E j \in 1..Len(list) : list[j] = x

\* The status with the lists looked at before the queue.
pkg_download_statusMutListsFirst(pkg_id) ==
    LET j == get_active_download(g_download_queue, pkg_id)
    IN  IF Contains(g_completed_downloads, pkg_id) THEN "Completed"
        ELSE IF j = 0
        THEN IF Contains(g_failed_downloads, pkg_id) THEN "Failed"
             ELSE "NotStarted"
        ELSE CASE g_download_queue[j].last_received_status = "Progress" ->
                    "Downloading"
               [] g_download_queue[j].last_received_status = "Verifying" ->
                    "Verifying"
               [] OTHER -> "NotStarted"

\* egui/mod.rs:902-935.
pkg_download_status(pkg_id) ==
    LET j == get_active_download(g_download_queue, pkg_id)
    IN  IF j = 0
        THEN IF Contains(g_completed_downloads, pkg_id) THEN "Completed"
             ELSE IF Contains(g_failed_downloads, pkg_id) THEN "Failed"
             ELSE "NotStarted"
        ELSE CASE g_download_queue[j].last_received_status = "Progress" ->
                    "Downloading"
               [] g_download_queue[j].last_received_status = "Verifying" ->
                    "Verifying"
               [] OTHER -> "NotStarted"

GuiIdle ==
    /\ g_update = NoUpdate
    /\ g_pc = "idle"
    /\ g_download_queue = <<>>
    /\ g_tasks = <<>>
    /\ g_files = <<>>
    /\ g_completed_downloads = <<>>
    /\ g_failed_downloads = <<>>
    /\ g_account = <<>>
    /\ g_merge_queue = <<>>
    /\ g_merge_tasks = <<>>
    /\ g_completed_merges = <<>>
    /\ g_failed_merges = <<>>

\* egui/mod.rs:84-124 and 204-221: empty queues and lists, one search
\* result on screen; the files of its packages are absent, partial or
\* complete from an earlier run.
GuiInit ==
    /\ g_update \in {Update(PS3, 1)}
                       \cup {Update(PS4, n) : n \in 1..MaxUpdatePackages}
    /\ g_pc = "draw"
    /\ g_download_queue = <<>>
    /\ g_tasks = <<>>
    /\ g_files \in [1..g_update.packages -> {"absent", "verified"}]
    /\ g_completed_downloads = <<>>
    /\ g_failed_downloads = <<>>
    /\ g_account = <<>>
    /\ g_merge_queue = <<>>
    /\ g_merge_tasks = <<>>
    /\ g_completed_merges = <<>>
    /\ g_failed_merges = <<>>

vars_gui_merge ==
    <<g_merge_queue, g_merge_tasks, g_completed_merges, g_failed_merges>>
vars_gui_lists == <<g_completed_downloads, g_failed_downloads, g_account>>

\* egui/mod.rs:868-870 with 413-437: add_download(start_download(..)).
AddDownload(st, pkg_id) ==
    [queue |-> Append(st.queue,
                      ActiveDownload(Len(st.tasks) + 1, pkg_id)),
     tasks |-> Append(st.tasks, DownloadTask(pkg_id))]

\* egui/mod.rs:604-610: the loop of "Download all".
RECURSIVE DownloadAll(_, _)
DownloadAll(st, pkg_id) ==
    IF pkg_id > g_update.packages THEN st
    ELSE DownloadAll(IF get_active_download(st.queue, pkg_id) = 0
                     THEN AddDownload(st, pkg_id) ELSE st,
                     pkg_id + 1)

\* egui/mod.rs:601-611: a click on "Download all".
ClickDownloadAll ==
    LET st == DownloadAll([queue |-> g_download_queue, tasks |-> g_tasks], 1)
    IN  /\ g_pc = "draw"
        /\ Len(st.tasks) <= MaxStarts
        /\ g_download_queue' = st.queue
        /\ g_tasks' = st.tasks
        /\ g_account' = g_account \o
               [j \in 1..(Len(st.tasks) - Len(g_tasks)) |-> <<>>]
        /\ g_pc' = "downloads"
        /\ UNCHANGED <<g_update, g_files, g_completed_downloads,
                       g_failed_downloads, vars_gui_merge>>

\* egui/mod.rs:678-683 and 736-746: a click on the "Download file" of a
\* package, enabled unless its status is Downloading or Verifying.
ClickDownloadFile ==
    \E pkg_id \in 1..g_update.packages :
        LET st == AddDownload([queue |-> g_download_queue,
                               tasks |-> g_tasks], pkg_id)
        IN  /\ g_pc = "draw"
            /\ pkg_download_status(pkg_id) \notin {"Downloading", "Verifying"}
            /\ Len(st.tasks) <= MaxStarts
            /\ g_download_queue' = st.queue
            /\ g_tasks' = st.tasks
            /\ g_account' = Append(g_account, <<>>)
            /\ g_pc' = "downloads"
            /\ UNCHANGED <<g_update, g_files, g_completed_downloads,
                           g_failed_downloads, vars_gui_merge>>

\* egui/mod.rs:613-619: the update can be merged.
is_mergable ==
    /\ g_update.platform_variant = PS4
    /\ g_update.packages > 1
    /\ \A pkg_id \in 1..g_update.packages :
          pkg_download_status(pkg_id) = "Completed"

\* egui/mod.rs:625 and 642-644: a click on "Merge parts".
ClickMergeParts ==
    /\ g_pc = "draw"
    /\ is_mergable
    /\ Len(g_merge_tasks) < MaxMergeStarts
    /\ g_merge_queue' = Append(g_merge_queue,
                               ActiveMerge(Len(g_merge_tasks) + 1))
    /\ g_merge_tasks' = Append(g_merge_tasks, MergeTask)
    /\ g_pc' = "downloads"
    /\ UNCHANGED <<g_update, g_download_queue, g_tasks, g_files,
                   vars_gui_lists, g_completed_merges, g_failed_merges>>

\* egui/mod.rs:138-151: a frame drawn with no button clicked.
DrawFrame ==
    /\ g_pc = "draw"
    /\ g_pc' = "downloads"
    /\ UNCHANGED <<g_update, g_download_queue, g_tasks, g_files,
                   vars_gui_lists, vars_gui_merge>>

\* progress_rx.try_recv() answering Err(Empty) whatever the channel holds.
try_recvMutEmpty(channel) ==
    [ok |-> FALSE, status |-> "", channel |-> channel]

\* egui/mod.rs:270 and 361: progress_rx.try_recv(): the oldest status of
\* the channel, if there is one, and the channel after it.
try_recv(channel) ==
    IF channel = <<>> THEN [ok |-> FALSE, status |-> "", channel |-> channel]
    ELSE [ok |-> TRUE, status |-> Head(channel), channel |-> Tail(channel)]

\* egui/mod.rs:270-277: the download after the try_recv of this frame.
PolledDownload(download) ==
    LET recv == try_recv(g_tasks[download.serial].channel)
    IN  IF recv.ok
        THEN [download EXCEPT !.last_received_status = recv.status]
        ELSE download

\* egui/mod.rs:280: download.promise.ready().
DownloadReady(download) == g_tasks[download.serial].promise # "pending"
DownloadReadyWith(result) ==
    SelectSeq(g_download_queue,
              LAMBDA download : g_tasks[download.serial].promise = result)
PkgIds(queue) == [j \in 1..Len(queue) |-> queue[j].pkg_id]

\* egui/mod.rs:266-355: every download of the queue is polled once, in
\* order; the ones whose promise is ready are recorded and removed.
HandleDownloadPromises ==
    LET waiting == SelectSeq(g_download_queue,
                             LAMBDA download : ~DownloadReady(download))
        serials == {g_download_queue[j].serial :
                        j \in 1..Len(g_download_queue)}
    IN  /\ g_pc = "downloads"
        /\ g_download_queue' =
              [j \in 1..Len(waiting) |-> PolledDownload(waiting[j])]
        /\ g_tasks' =
              [serial \in 1..Len(g_tasks) |->
                  LET task == g_tasks[serial]
                      drained == [task EXCEPT
                                     !.channel = try_recv(@).channel]
                  IN  IF serial \notin serials THEN task
                      ELSE IF task.promise # "pending" THEN Dropped(drained)
                      ELSE drained]
        /\ g_completed_downloads' =
              g_completed_downloads \o PkgIds(DownloadReadyWith("Ok"))
        /\ g_failed_downloads' =
              g_failed_downloads \o PkgIds(DownloadReadyWith("Err"))
        /\ g_account' =
              [serial \in 1..Len(g_account) |->
                  IF serial \notin serials
                     \/ g_tasks[serial].promise = "pending"
                  THEN g_account[serial]
                  ELSE Append(g_account[serial],
                              IF g_tasks[serial].promise = "Ok"
                              THEN "completed" ELSE "failed")]
        /\ g_pc' = "merges"
        /\ UNCHANGED <<g_update, g_files, vars_gui_merge>>

\* egui/mod.rs:361-367: the merge after the try_recv of this frame.
PolledMerge(merge) ==
    LET recv == try_recv(g_merge_tasks[merge.serial].channel)
    IN  IF recv.ok /\ recv.status.kind = "PartProgress"
        THEN [merge EXCEPT !.part_progress = recv.status.n]
        ELSE merge

MergeReadyWith(result) ==
    SelectSeq(g_merge_queue,
              LAMBDA merge : g_merge_tasks[merge.serial].promise = result)
TitleIds(queue) == [j \in 1..Len(queue) |-> queue[j].title_id]

\* egui/mod.rs:357-411, and 165: the next frame is requested.
HandleMergePromises ==
    LET waiting == MergeReadyWith("pending")
        serials == {g_merge_queue[j].serial : j \in 1..Len(g_merge_queue)}
    IN  /\ g_pc = "merges"
        /\ g_merge_queue' =
              [j \in 1..Len(waiting) |-> PolledMerge(waiting[j])]
        /\ g_merge_tasks' =
              [serial \in 1..Len(g_merge_tasks) |->
                  LET task == g_merge_tasks[serial]
                      drained == [task EXCEPT
                                     !.channel = try_recv(@).channel]
                  IN  IF serial \notin serials THEN task
                      ELSE IF task.promise # "pending" THEN Dropped(drained)
                      ELSE drained]
        /\ g_completed_merges' =
              g_completed_merges \o TitleIds(MergeReadyWith("Ok"))
        /\ g_failed_merges' =
              g_failed_merges \o TitleIds(MergeReadyWith("Err"))
        /\ g_pc' = "draw"
        /\ UNCHANGED <<g_update, g_download_queue, g_tasks, g_files,
                       vars_gui_lists>>

\* The steps of the task of a download (psn/mod.rs:288-401), as the front
\* end sees them: what it sends, when its promise resolves, and what it
\* leaves in the file.
TaskStep(serial, task, files) ==
    /\ g_tasks' = [g_tasks EXCEPT ![serial] = task]
    /\ g_files' = files
    /\ UNCHANGED <<g_update, g_pc, g_download_queue, vars_gui_lists,
                   vars_gui_merge>>

Resolve(task, result) == [task EXCEPT !.pc = "done", !.promise = result]

\* tx.send(status).await: the task waits while the channel is full.
CanSend(task) == Len(task.channel) < ChannelSlots
TaskSend(task, status, pc) ==
    [task EXCEPT !.channel = Append(@, status), !.pc = pc]

\* psn/mod.rs:298-328: the request is answered, the file is opened,
\* created when absent, and Verifying is sent into the empty channel; or
\* the request fails.
TaskRequest ==
    \E serial \in 1..Len(g_tasks) : \E ok \in BOOLEAN :
        LET task == g_tasks[serial]
            pkg_id == task.pkg_id
        IN  /\ task.pc = "request"
            /\ IF ok
               THEN TaskStep(serial, TaskSend(task, "Verifying", "hash1"),
                             [g_files EXCEPT ![pkg_id] =
                                 IF @ = "absent" THEN "partial" ELSE @])
               ELSE TaskStep(serial, Resolve(task, "Err"), g_files)

\* psn/mod.rs:379.
TaskSendVerifying ==
    \E serial \in 1..Len(g_tasks) :
        LET task == g_tasks[serial]
        IN  /\ task.pc = "verifying2"
            /\ CanSend(task)
            /\ TaskStep(serial, TaskSend(task, "Verifying", "hash2"),
                        g_files)

\* psn/mod.rs:330-339: the file on disk is hashed; one that does not verify
\* is emptied.
TaskHashExisting ==
    \E serial \in 1..Len(g_tasks) :
        LET task == g_tasks[serial]
            pkg_id == task.pkg_id
        IN  /\ task.pc = "hash1"
            /\ IF g_files[pkg_id] = "verified"
               THEN TaskStep(serial, [task EXCEPT !.pc = "success"], g_files)
               ELSE TaskStep(serial, [task EXCEPT !.pc = "chunk"],
                             [g_files EXCEPT ![pkg_id] = "partial"])

\* psn/mod.rs:343-345: the next chunk, the end of the stream, or an error
\* of the transfer.
TaskChunk ==
    \E serial \in 1..Len(g_tasks) :
      \E next \in {"chunk", "end", "error"} :
        LET task == g_tasks[serial]
        IN  /\ task.pc = "chunk"
            /\ next = "chunk" => task.chunks < MaxProgress
            /\ TaskStep(serial,
                        CASE next = "chunk" ->
                                [task EXCEPT !.pc = "progress",
                                             !.chunks = @ + 1]
                          [] next = "end" -> [task EXCEPT !.pc = "verifying2"]
                          [] OTHER -> Resolve(task, "Err"),
                        g_files)

\* psn/mod.rs:355-362: Progress is sent and the chunk is written.
TaskSendProgress ==
    \E serial \in 1..Len(g_tasks) :
        LET task == g_tasks[serial]
        IN  /\ task.pc = "progress"
            /\ CanSend(task)
            /\ TaskStep(serial, TaskSend(task, "Progress", "chunk"),
                        [g_files EXCEPT ![task.pkg_id] = "partial"])

\* psn/mod.rs:381 and 386: the received file is hashed.
TaskHashReceived ==
    \E serial \in 1..Len(g_tasks) : \E matches \in BOOLEAN :
        LET task == g_tasks[serial]
            pkg_id == task.pkg_id
        IN  /\ task.pc = "hash2"
            /\ matches => task.chunks > 0
            /\ IF matches
               THEN TaskStep(serial, [task EXCEPT !.pc = "success"],
                             [g_files EXCEPT ![pkg_id] = "verified"])
               ELSE TaskStep(serial, [task EXCEPT !.pc = "failure"],
                             [g_files EXCEPT ![pkg_id] = "partial"])

\* psn/mod.rs:383, 388 and 397.
TaskSendResult ==
    \E serial \in 1..Len(g_tasks) :
        LET task == g_tasks[serial]
        IN  /\ task.pc \in {"success", "failure"}
            /\ CanSend(task)
            /\ TaskStep(serial,
                        IF task.pc = "success"
                        THEN TaskSend(task, "DownloadSuccess", "return_ok")
                        ELSE TaskSend(task, "DownloadFailure", "return_err"),
                        g_files)

\* psn/mod.rs:385, 390 and 399: the task returns and its promise resolves.
TaskReturn ==
    \E serial \in 1..Len(g_tasks) :
        LET task == g_tasks[serial]
        IN  /\ task.pc \in {"return_ok", "return_err"}
            /\ TaskStep(serial,
                        Resolve(task, IF task.pc = "return_ok" THEN "Ok"
                                      ELSE "Err"),
                        g_files)

MergeTaskStep(serial, task) ==
    /\ g_merge_tasks' = [g_merge_tasks EXCEPT ![serial] = task]
    /\ UNCHANGED <<g_update, g_pc, g_download_queue, g_tasks, g_files,
                   vars_gui_lists, g_merge_queue, g_completed_merges,
                   g_failed_merges>>

\* psn/mod.rs:190-241: the next part is copied into the merged file and
\* PartProgress is sent, or the merge returns an error.
MergeTaskPart ==
    \E serial \in 1..Len(g_merge_tasks) : \E ok \in BOOLEAN :
        LET task == g_merge_tasks[serial]
        IN  /\ task.pc = "part"
            /\ task.part <= g_update.packages
            /\ ok => CanSend(task)
            /\ MergeTaskStep(serial,
                             IF ok
                             THEN [task EXCEPT
                                      !.channel =
                                          Append(@, PartProgress(task.part)),
                                      !.part = @ + 1]
                             ELSE Resolve(task, "Err"))

\* psn/mod.rs:243-244.
MergeTaskSuccess ==
    \E serial \in 1..Len(g_merge_tasks) :
        LET task == g_merge_tasks[serial]
        IN  /\ task.pc = "part"
            /\ task.part > g_update.packages
            /\ CanSend(task)
            /\ MergeTaskStep(serial, TaskSend(task, MergeSuccess, "return_ok"))

MergeTaskReturn ==
    \E serial \in 1..Len(g_merge_tasks) :
        LET task == g_merge_tasks[serial]
        IN  /\ task.pc = "return_ok"
            /\ MergeTaskStep(serial, Resolve(task, "Ok"))

(***************************************************************************)
(* parse_title_id on the text of the search bar, and on a title id that a  *)
(* caller has normalized before (psn/mod.rs:248-253).                      *)
(*                                                                         *)
(*   t_serial_query  the text typed into the search bar                    *)
(*   t_title_id      parse_title_id of the text                            *)
(*   t_again         parse_title_id of t_title_id                          *)
(*   t_pc            the position: "query", "search", "done"               *)
(***************************************************************************)
VARIABLES t_serial_query, t_title_id, t_again, t_pc
vars_title == <<t_serial_query, t_title_id, t_again, t_pc>>

\* Most characters of a query, and the characters they are made of.
MaxQueryLen == 4
QueryChars == {" ", "-", "a", "B"}

TitleIdle ==
    /\ t_serial_query = <<>>
    /\ t_title_id = <<>>
    /\ t_again = <<>>
    /\ t_pc = "idle"

TitleInit ==
    /\ t_serial_query \in UNION {[1..n -> QueryChars] : n \in 0..MaxQueryLen}
    /\ t_title_id = <<>>
    /\ t_again = <<>>
    /\ t_pc = "query"

\* egui/mod.rs:527-531: the query is normalized to look for results that
\* are already shown.
SearchForUpdates ==
    /\ t_pc = "query"
    /\ t_title_id' = parse_title_id(t_serial_query)
    /\ t_pc' = "search"
    /\ UNCHANGED <<t_serial_query, t_again>>

\* psn/mod.rs:88: get_info normalizes the serial it is given, here a title
\* id that is normalized already.
GetInfoOfTitleId ==
    /\ t_pc = "search"
    /\ t_again' = parse_title_id(t_title_id)
    /\ t_pc' = "done"
    /\ UNCHANGED <<t_serial_query, t_title_id>>

(***************************************************************************)
(* Where a package is written and where it is read: the path of            *)
(* start_download (psn/mod.rs:304-326, utils.rs:31-85) and the path of     *)
(* merge_parts (psn/mod.rs:185-224) for one package of one update, as the  *)
(* egui front end calls them (egui/mod.rs:413-458).                        *)
(*                                                                         *)
(*   n_family        the target family the program was built for           *)
(*   n_update        the update: title_id, titles, and of its package the  *)
(*                   url and the part_number                               *)
(*   n_args          the serial and the title start_download is given      *)
(*   n_response_url  response.url(), the url after the redirects           *)
(*   n_pkg_file      the path start_download opened                        *)
(*   n_package_path  the path merge_parts reads, or why it has none        *)
(*   n_pc            the position                                          *)
(***************************************************************************)
VARIABLES n_family, n_update, n_args, n_response_url, n_pkg_file,
          n_package_path, n_pc
vars_path == <<n_family, n_update, n_args, n_response_url, n_pkg_file,
               n_package_path, n_pc>>

\* A url as the url crate reads it: a text that does not parse ("invalid"),
\* a url that cannot be a base and has no path segments ("mailto"), or an
\* https url with its path segments, each a file name in pieces.
Url(scheme, segments) == [scheme |-> scheme, segments |-> segments]
NoUrl == Url("invalid", <<>>)
PlaceholderName == <<Lit("update"), Lit(".pkg")>>
PackageUrls ==
    {NoUrl, Url("mailto", <<>>),
     Url("https", << <<Lit("a"), Idx(0)>> >>),
     Url("https", << <<Lit("cdn")>>, <<Lit("a"), Idx(0)>> >>),
     Url("https", << <<Lit("cdn")>>, <<Lit("a"), Lit(".pkg")>> >>),
     Url("https", << <<Lit("cdn")>>, <<>> >>),
     Url("https", << <<>> >>)}
\* The urls a server redirects to.
RedirectUrls ==
    {Url("https", << <<Lit("a"), Idx(0)>> >>),
     Url("https", << <<Lit("b"), Idx(0)>> >>),
     Url("https", << <<>> >>)}

\* The titles of an update, each a sequence of characters.
TitleLists ==
    {<<>>, << <<"A", "/", "B">> >>, << <<"A", ":">>, <<"C">> >>}
DownloadPath == <<"pkgs">>

\* A path that was not derived, and why.
NoPath(why) == <<why>>
IsPath(path) == Len(path) > 1

\* utils.rs:13-17.
INVALID_CHARS ==
    IF n_family = "windows"
    THEN {"<", ">", ":", "\"", "/", "\\", "|", "?", "*"}
    ELSE {"/"}

\* utils.rs:19-22.
sanitize_title(title_text) ==
    [j \in 1..Len(title_text) |->
        IF title_text[j] \in INVALID_CHARS THEN "_" ELSE title_text[j]]

\* utils.rs:31-38: download_path joined with "<serial> - <title>".
create_new_pkg_path(download_path, serial, title_text) ==
    Append(download_path,
           [serial |-> serial, title |-> sanitize_title(title_text)])

\* psn/mod.rs:79-85.
title(update) ==
    IF update.titles # <<>> THEN update.titles[1] ELSE <<>>

\* path_segments() and then the last segment, if it is not empty.
LastSegment(url) ==
    IF url.scheme = "https" /\ url.segments[Len(url.segments)] # <<>>
    THEN [some |-> TRUE, name |-> url.segments[Len(url.segments)]]
    ELSE [some |-> FALSE, name |-> <<>>]

\* psn/mod.rs:403-421.
file_name(package) ==
    IF package.url.scheme = "invalid" THEN [some |-> FALSE, name |-> <<>>]
    ELSE LastSegment(package.url)

\* The file always named update.pkg.
ResponseFileNameMutPlaceholder(response_url) == PlaceholderName

\* psn/mod.rs:310-321.
ResponseFileName(response_url) ==
    IF LastSegment(response_url).some
    THEN LastSegment(response_url).name
    ELSE PlaceholderName

PathIdle ==
    /\ n_family = "unix"
    /\ n_update = [title_id |-> "", titles |-> <<>>, url |-> NoUrl,
                   part_number |-> None]
    /\ n_args = [serial |-> "", title |-> <<>>]
    /\ n_response_url = NoUrl
    /\ n_pkg_file = NoPath("none")
    /\ n_package_path = NoPath("none")
    /\ n_pc = "idle"

PathInit ==
    /\ n_family \in {"unix", "windows"}
    /\ n_update \in [title_id : {"CUSA0", "CUSA1"}, titles : TitleLists,
                     url : PackageUrls,
                     part_number : {None, Some(1), Some(2)}]
    /\ n_args = [serial |-> "", title |-> <<>>]
    /\ n_response_url = NoUrl
    /\ n_pkg_file = NoPath("none")
    /\ n_package_path = NoPath("none")
    /\ n_pc = "shown"

\* egui/mod.rs:601-611 and 736-746: the front end starts the download with
\* the update's title id and first title.
PathClickDownload ==
    /\ n_pc = "shown"
    /\ n_args' = [serial |-> n_update.title_id, title |-> title(n_update)]
    /\ n_pc' = "request"
    /\ UNCHANGED <<n_family, n_update, n_response_url, n_pkg_file,
                   n_package_path>>

\* psn/mod.rs:298-308: the request; only an https url is requested, and
\* the response comes from the url itself or from one it was redirected
\* to.
PathRequest ==
    /\ n_pc = "request"
    /\ \/ /\ n_update.url.scheme = "https"
          /\ \E url \in {n_update.url} \cup RedirectUrls :
                n_response_url' = url
          /\ n_pc' = "create"
          /\ UNCHANGED n_pkg_file
       \/ /\ n_pkg_file' = NoPath("Reqwest")
          /\ n_pc' = "merge"
          /\ UNCHANGED n_response_url
    /\ UNCHANGED <<n_family, n_update, n_args, n_package_path>>

\* psn/mod.rs:310-326, utils.rs:40-85: the file name is taken from the
\* response and the file opened in the directory of the title.
PathCreatePkgFile ==
    /\ n_pc = "create"
    /\ \/ n_pkg_file' =
             Append(create_new_pkg_path(DownloadPath, n_args.serial,
                                        n_args.title),
                    ResponseFileName(n_response_url))
       \/ n_pkg_file' = NoPath("Tokio")
    /\ n_pc' = "merge"
    /\ UNCHANGED <<n_family, n_update, n_args, n_response_url,
                   n_package_path>>

\* egui/mod.rs:439-458, psn/mod.rs:185-224: merge_parts on the update, up
\* to the path of the part it copies.
PathMergeParts ==
    /\ n_pc = "merge"
    /\ n_package_path' =
          IF ~n_update.part_number.some THEN NoPath("PackagesUnmergable")
          ELSE IF ~file_name(n_update).some THEN NoPath("FilepathMismatch")
          ELSE IF ~EndsWith(file_name(n_update).name,
                            n_update.part_number.n - 1)
               THEN NoPath("FilepathMismatch")
          ELSE Append(create_new_pkg_path(DownloadPath, n_update.title_id,
                                          title(n_update)),
                      file_name(n_update).name)
    /\ n_pc' = "done"
    /\ UNCHANGED <<n_family, n_update, n_args, n_response_url, n_pkg_file>>

(***************************************************************************)
(* The specifications.                                                     *)
(***************************************************************************)
vars == <<vars_build, vars_hash, vars_dl, vars_merge, vars_info,
         vars_upd, vars_parse, vars_gui, vars_title, vars_path>>

\* The hashing utility.
OutsideHash ==
    <<vars_build, vars_dl, vars_merge,
      vars_info, vars_upd, vars_parse, vars_gui, vars_title, vars_path>>
NextHash ==
    \/ HashOpen /\ UNCHANGED OutsideHash
    \/ HashFillBuf /\ UNCHANGED OutsideHash

InitHash == BuildInit /\ HashInit /\ DlIdle /\ MergeIdle /\ InfoIdle
                /\ UpdatesIdle /\ ParseIdle /\ GuiIdle /\ TitleIdle /\ PathIdle

SpecHash == InitHash /\ [][NextHash]_vars

\* The download engine.
OutsideDownload ==
    <<vars_build, vars_hash, vars_merge,
      vars_info, vars_upd, vars_parse, vars_gui, vars_title, vars_path>>
NextDownload ==
    \/ SendRequest /\ UNCHANGED OutsideDownload
    \/ CreatePkgFile /\ UNCHANGED OutsideDownload
    \/ SendVerifying1 /\ UNCHANGED OutsideDownload
    \/ HashExisting /\ UNCHANGED OutsideDownload
    \/ SetLen /\ UNCHANGED OutsideDownload
    \/ SeekStart /\ UNCHANGED OutsideDownload
    \/ ReadChunk /\ UNCHANGED OutsideDownload
    \/ SendProgress /\ UNCHANGED OutsideDownload
    \/ WriteChunk /\ UNCHANGED OutsideDownload
    \/ SyncAll /\ UNCHANGED OutsideDownload
    \/ SendVerifying2 /\ UNCHANGED OutsideDownload
    \/ HashReceived /\ UNCHANGED OutsideDownload
    \/ SendSuccess /\ UNCHANGED OutsideDownload
    \/ SendFailure /\ UNCHANGED OutsideDownload
    \/ DropReceiver /\ UNCHANGED OutsideDownload
    \/ ExternalWrite /\ UNCHANGED OutsideDownload
    \/ Reinvoke /\ UNCHANGED OutsideDownload

InitDownload == BuildInit /\ DlInit /\ HashIdle /\ MergeIdle /\ InfoIdle
                /\ UpdatesIdle /\ ParseIdle /\ GuiIdle /\ TitleIdle /\ PathIdle

SpecDownload == InitDownload /\ [][NextDownload]_vars

\* The merge engine.
OutsideMerge ==
    <<vars_build, vars_hash, vars_dl,
      vars_info, vars_upd, vars_parse, vars_gui, vars_title, vars_path>>
NextMerge ==
    \/ MergeCheck /\ UNCHANGED OutsideMerge
    \/ MergePart /\ UNCHANGED OutsideMerge
    \/ SendPartProgress /\ UNCHANGED OutsideMerge
    \/ SendMergeSuccess /\ UNCHANGED OutsideMerge
    \/ DropMergeReceiver /\ UNCHANGED OutsideMerge

InitMerge == BuildIdle /\ MergeInit /\ HashIdle /\ DlIdle /\ InfoIdle
                /\ UpdatesIdle /\ ParseIdle /\ GuiIdle /\ TitleIdle /\ PathIdle

SpecMerge == InitMerge /\ [][NextMerge]_vars

\* The resolver.
OutsideInfo ==
    <<vars_build, vars_hash, vars_dl,
      vars_merge, vars_upd, vars_parse, vars_gui, vars_title, vars_path>>
NextInfo ==
    \/ GetInfoStart /\ UNCHANGED OutsideInfo
    \/ GetInfoSend /\ UNCHANGED OutsideInfo
    \/ GetInfoText /\ UNCHANGED OutsideInfo
    \/ GetInfoManifestSend /\ UNCHANGED OutsideInfo
    \/ GetInfoManifestText /\ UNCHANGED OutsideInfo

InitInfo == BuildIdle /\ InfoInit /\ HashIdle /\ DlIdle /\ MergeIdle
                /\ UpdatesIdle /\ ParseIdle /\ GuiIdle /\ TitleIdle /\ PathIdle

SpecInfo == InitInfo /\ [][NextInfo]_vars

\* The update query of the library crate.
OutsideUpdates ==
    <<vars_build, vars_hash, vars_dl,
      vars_merge, vars_info, vars_parse, vars_gui, vars_title, vars_path>>
NextUpdates ==
    \/ GetUpdatesBuild /\ UNCHANGED OutsideUpdates
    \/ GetUpdatesExecute /\ UNCHANGED OutsideUpdates
    \/ GetUpdatesText /\ UNCHANGED OutsideUpdates

InitUpdates == BuildIdle /\ UpdatesInit /\ HashIdle /\ DlIdle /\ MergeIdle
                /\ InfoIdle /\ ParseIdle /\ GuiIdle /\ TitleIdle /\ PathIdle

SpecUpdates == InitUpdates /\ [][NextUpdates]_vars

\* parse_response.
OutsideParse ==
    <<vars_build, vars_hash, vars_dl,
      vars_merge, vars_info, vars_upd, vars_gui, vars_title, vars_path>>
NextParse ==
    \/ ParseStart /\ UNCHANGED OutsideParse
    \/ ParseEnd /\ UNCHANGED OutsideParse
    \/ ParseEmpty /\ UNCHANGED OutsideParse
    \/ ParseText /\ UNCHANGED OutsideParse
    \/ ParseIgnored /\ UNCHANGED OutsideParse
    \/ ParseEof /\ UNCHANGED OutsideParse

InitParse == BuildIdle /\ ParseInit /\ HashIdle /\ DlIdle /\ MergeIdle
                /\ InfoIdle /\ UpdatesIdle /\ GuiIdle /\ TitleIdle /\ PathIdle

SpecParse == InitParse /\ [][NextParse]_vars

\* parse_response runs to its end once called: it is one synchronous call
\* on the caller's thread.
SpecParseFair == InitParse /\ [][NextParse]_vars /\ WF_vars(NextParse)

\* The egui front end.
OutsideGui ==
    <<vars_build, vars_hash, vars_dl, vars_merge,
      vars_info, vars_upd, vars_parse, vars_title, vars_path>>
NextGui ==
    \/ ClickDownloadAll /\ UNCHANGED OutsideGui
    \/ ClickDownloadFile /\ UNCHANGED OutsideGui
    \/ ClickMergeParts /\ UNCHANGED OutsideGui
    \/ DrawFrame /\ UNCHANGED OutsideGui
    \/ HandleDownloadPromises /\ UNCHANGED OutsideGui
    \/ HandleMergePromises /\ UNCHANGED OutsideGui
    \/ TaskRequest /\ UNCHANGED OutsideGui
    \/ TaskSendVerifying /\ UNCHANGED OutsideGui
    \/ TaskHashExisting /\ UNCHANGED OutsideGui
    \/ TaskChunk /\ UNCHANGED OutsideGui
    \/ TaskSendProgress /\ UNCHANGED OutsideGui
    \/ TaskHashReceived /\ UNCHANGED OutsideGui
    \/ TaskSendResult /\ UNCHANGED OutsideGui
    \/ TaskReturn /\ UNCHANGED OutsideGui
    \/ MergeTaskPart /\ UNCHANGED OutsideGui
    \/ MergeTaskSuccess /\ UNCHANGED OutsideGui
    \/ MergeTaskReturn /\ UNCHANGED OutsideGui

InitGui == BuildIdle /\ GuiInit /\ HashIdle /\ DlIdle /\ MergeIdle
                /\ InfoIdle /\ UpdatesIdle /\ ParseIdle /\ TitleIdle /\ PathIdle

SpecGui == InitGui /\ [][NextGui]_vars

\* The downloads of a title with one package, where no merge is offered
\* (egui/mod.rs:615-625). The frames follow one another (egui/mod.rs:165:
\* every update requests the next repaint), the runtime runs every task
\* that can go on, and every response stream ends or fails.
NextGuiDownloads ==
    \/ ClickDownloadAll /\ UNCHANGED OutsideGui
    \/ ClickDownloadFile /\ UNCHANGED OutsideGui
    \/ DrawFrame /\ UNCHANGED OutsideGui
    \/ HandleDownloadPromises /\ UNCHANGED OutsideGui
    \/ HandleMergePromises /\ UNCHANGED OutsideGui
    \/ TaskRequest /\ UNCHANGED OutsideGui
    \/ TaskSendVerifying /\ UNCHANGED OutsideGui
    \/ TaskHashExisting /\ UNCHANGED OutsideGui
    \/ TaskChunk /\ UNCHANGED OutsideGui
    \/ TaskSendProgress /\ UNCHANGED OutsideGui
    \/ TaskHashReceived /\ UNCHANGED OutsideGui
    \/ TaskSendResult /\ UNCHANGED OutsideGui
    \/ TaskReturn /\ UNCHANGED OutsideGui

GuiFrame ==
    /\ \/ ClickDownloadAll \/ ClickDownloadFile \/ DrawFrame
       \/ HandleDownloadPromises \/ HandleMergePromises
    /\ UNCHANGED OutsideGui
DownloadTasks ==
    /\ \/ TaskRequest \/ TaskSendVerifying \/ TaskHashExisting \/ TaskChunk
       \/ TaskSendProgress \/ TaskHashReceived \/ TaskSendResult
       \/ TaskReturn
    /\ UNCHANGED OutsideGui

InitGuiDownloads == InitGui /\ g_update.packages = 1

SpecGuiFair ==
    /\ InitGuiDownloads /\ [][NextGuiDownloads]_vars
    /\ WF_vars(GuiFrame) /\ WF_vars(DownloadTasks)

\* parse_title_id.
OutsideTitle ==
    <<vars_build, vars_hash, vars_dl, vars_merge,
      vars_info, vars_upd, vars_parse, vars_gui, vars_path>>
NextTitle ==
    \/ SearchForUpdates /\ UNCHANGED OutsideTitle
    \/ GetInfoOfTitleId /\ UNCHANGED OutsideTitle

InitTitle == BuildIdle /\ TitleInit /\ HashIdle /\ DlIdle /\ MergeIdle
                /\ InfoIdle /\ UpdatesIdle /\ ParseIdle /\ GuiIdle /\ PathIdle

SpecTitle == InitTitle /\ [][NextTitle]_vars

\* The paths of a download and of the merge of its file.
OutsidePath ==
    <<vars_build, vars_hash, vars_dl, vars_merge,
      vars_info, vars_upd, vars_parse, vars_gui, vars_title>>
NextPath ==
    \/ PathClickDownload /\ UNCHANGED OutsidePath
    \/ PathRequest /\ UNCHANGED OutsidePath
    \/ PathCreatePkgFile /\ UNCHANGED OutsidePath
    \/ PathMergeParts /\ UNCHANGED OutsidePath

InitPath == BuildIdle /\ PathInit /\ HashIdle /\ DlIdle /\ MergeIdle
                /\ InfoIdle /\ UpdatesIdle /\ ParseIdle /\ GuiIdle
                /\ TitleIdle

SpecPath == InitPath /\ [][NextPath]_vars

(***************************************************************************)
(* Properties of the download engine and of the hashing utility.           *)
(***************************************************************************)
\* The bytes a digest covers: the whole file, or all but the last
\* SuffixSize bytes.
Covered(file, hash_whole_file) ==
    Take(file, Len(file) - suffix_size(hash_whole_file))

\* A file matches an expected hash under a hashing policy: it is long
\* enough to hold the excluded suffix and the covered bytes hash to it.
Matches(file, hash, hash_whole_file) ==
    /\ Len(file) >= suffix_size(hash_whole_file)
    /\ Sha1Of(Covered(file, hash_whole_file)) = hash

\* A run of start_download has returned and the file was not written since.
Returned == d_pc = "done" /\ ~d_touched

\* C1: whenever start_download returns Ok(()), the last hash_file check of
\* the run returned true and the bytes on disk (the whole file, or all but
\* the last 32 bytes) hash to the package's sha1sum; every other return,
\* the caller holding its receiver, is a typed DownloadError.
C1_OkOnlyWhenVerified ==
    Returned =>
        /\ d_result = "Ok" =>
              /\ d_hashes # <<>>
              /\ d_hashes[Len(d_hashes)] = "true"
              /\ Matches(d_disk, d_pkg.sha1sum, d_pkg.hash_whole_file)
        /\ (d_result # "Ok" /\ d_rx_open) => d_result \in TypedErrors

\* C1, witness: a run that found the file unverified, transferred the body
\* and returned Ok(()) after the second check.
C1_Witness ==
    /\ Returned
    /\ d_result = "Ok"
    /\ d_hashes = <<"false", "true">>
    /\ d_reads > 1
    /\ ~d_pkg.hash_whole_file

\* C2: a run that starts on a file matching the package's digest under its
\* hash_whole_file policy never calls response.chunk() and, when its
\* request and file operations succeed and the receiver is held, ends with
\* DownloadSuccess and Ok(()).
C2_MatchingFileSkipsTransfer ==
    Matches(d_start, d_pkg.sha1sum, d_pkg.hash_whole_file) =>
        /\ d_reads = 0
        /\ (Returned /\ ~d_fault /\ d_rx_open) =>
              /\ d_result = "Ok"
              /\ d_sent = <<Verifying, DownloadSuccess>>

\* C3 as stated: a run invoked after a run that returned Ok(()), on the
\* untouched file, transfers nothing, leaves the file as it is and returns
\* Ok(()) (the caller holding its receiver).
C3_RerunReturnsOk ==
    (d_prev_ok /\ Returned /\ d_rx_open) =>
        /\ d_reads = 0
        /\ d_disk = d_start
        /\ d_result = "Ok"

\* C3, amended: a run invoked after a run that returned Ok(()), on the
\* untouched file, never calls response.chunk() and never changes the file;
\* it returns Ok(()) when its request and file operations succeed (the
\* caller holding its receiver), and the Reqwest or Tokio error otherwise.
C3_RerunTransfersNothing ==
    (d_prev_ok /\ ~d_touched) =>
        /\ d_reads = 0
        /\ d_disk = d_start
        /\ (d_pc = "done" /\ ~d_fault /\ d_rx_open) => d_result = "Ok"
        /\ (d_pc = "done" /\ d_fault) => d_result \in {"Reqwest", "Tokio"}

\* C3, witness: the second run returned Ok(()) on the file the first run
\* had downloaded.
C3_Witness ==
    /\ d_prev_ok
    /\ Returned
    /\ d_result = "Ok"
    /\ d_disk # <<>>
    /\ d_sent = <<Verifying, DownloadSuccess>>

\* C4: for a package with hash_whole_file = false, hash_file returns true
\* exactly when the SHA-1 of the file's first (length - 32) bytes equals the
\* expected hash; the suffix bytes are never fed to the hasher, whatever
\* blocks the reader delivers, and a file shorter than 32 bytes never
\* verifies.
C4_SuffixExcluded ==
    ~h_whole =>
        /\ h_pc # "idle" =>
              /\ Len(h_st.fed) <= h_st.processed_length
              /\ h_st.fed = Take(h_st.file, Len(h_st.fed))
              /\ Len(h_st.fed) <= Len(Covered(h_st.file, FALSE))
        /\ (h_pc = "done" /\ h_st.outcome \in {"true", "false"}) =>
              /\ h_st.outcome = "true" <=>
                     /\ Len(h_st.file) >= SuffixSize
                     /\ Sha1Of(Covered(h_st.file, FALSE)) = h_st.hash
              /\ Len(h_st.file) < SuffixSize => h_st.outcome = "false"

(***************************************************************************)
(* Properties of the merge engine.                                         *)
(***************************************************************************)
\* The packages in ascending order of offset, and their payloads
\* concatenated in that order.
RECURSIVE InsertByOffset(_, _)
InsertByOffset(pkg, sorted) ==
    IF sorted = <<>> THEN <<pkg>>
    ELSE IF pkg.offset < Head(sorted).offset
         THEN <<pkg>> \o sorted
         ELSE <<Head(sorted)>> \o InsertByOffset(pkg, Tail(sorted))

RECURSIVE SortByOffset(_)
SortByOffset(packages) ==
    IF packages = <<>> THEN <<>>
    ELSE InsertByOffset(Head(packages), SortByOffset(Tail(packages)))

RECURSIVE ConcatPayloads(_)
ConcatPayloads(packages) ==
    IF packages = <<>> THEN <<>>
    ELSE Head(packages).payload \o ConcatPayloads(Tail(packages))

StrictlyIncreasing(seq) ==
    \A a, b \in 1..Len(seq) : a < b => seq[a] < seq[b]

\* The part numbers of the PartProgress events sent, in order.
IsPartProgress(ev) == ev.kind = "PartProgress"
PartNumbersSent ==
    LET evs == SelectSeq(m_sent, IsPartProgress)
    IN  [j \in 1..Len(evs) |-> evs[j].n]

\* C5: when a package has no part number, merge_parts returns
\* PackagesUnmergable and, before that, opens, creates and writes no file
\* and sends no event.
C5_UnmergableBeforeFilesystem ==
    (\E j \in 1..Len(m_packages) : ~m_packages[j].part_number.some) =>
        /\ m_opens = 0
        /\ m_copies = <<>>
        /\ m_fs = m_fs0
        /\ m_sent = <<>>
        /\ m_pc = "done" => m_result = "PackagesUnmergable"

\* C5, witness: merge_parts returned PackagesUnmergable for an update whose
\* first package carries a part number and a later one does not.
C5_Witness ==
    /\ m_pc = "done"
    /\ m_result = "PackagesUnmergable"
    /\ Len(m_packages) > 1
    /\ m_packages[1].part_number.some

\* C6: the copy_pkg_file calls of merge_parts, and its PartProgress events,
\* are in strictly ascending order of part number, whatever the order of
\* the packages.
C6_AscendingPartOrder ==
    /\ StrictlyIncreasing(m_copies)
    /\ StrictlyIncreasing(PartNumbersSent)

\* C7: after merge_parts returned Ok(()), the bytes of every part sit in
\* the merged file from the part's offset on, and the merged file is the
\* concatenation of the payloads in offset order, whatever file was there
\* before.
C7_MergedIsConcatenation ==
    (m_pc = "done" /\ m_result = "Ok") =>
        LET merged == FileBytes(m_fs, MergedName)
        IN  /\ \A j \in 1..Len(m_packages) :
                   SubSeq(merged, m_packages[j].offset + 1,
                          m_packages[j].offset + Len(m_packages[j].payload))
                       = m_packages[j].payload
            /\ merged = ConcatPayloads(SortByOffset(m_packages))

(***************************************************************************)
(* Properties of the resolver.                                             *)
(***************************************************************************)
\* The title manifest was received and get_info has returned.
InfoAnswered == i_pc = "done" /\ i_texts > 0

\* The body holds the substring "Not found".
MentionsNotFound(body) ==
    \E j \in 1..Len(body) :
        \/ body[j].raw = "Not found"
        \/ \E a \in 1..Len(body[j].attrs) : body[j].attrs[a].raw = "Not found"

IsStart(e, name) == e.ev = "Start" /\ e.name = name

\* The Code elements of a sequence of events that follow an Error element:
\* all of them, and those with a text that unescapes.
CodesAfterError(E) ==
    {b \in 1..Len(E) :
        IsStart(E[b], "Code") /\ \E a \in 1..(b - 1) : IsStart(E[a], "Error")}

CodesWithText(E) ==
    {b \in CodesAfterError(E) :
        b < Len(E) /\ E[b + 1].ev = "Text" /\ Unescape(E[b + 1].raw).ok}

First(S) == CHOOSE b \in S : \A c \in S : b <= c

CodeText(E, b) == Unescape(E[b + 1].raw).value

\* What C8 requires for the code c.
ForCode(c) ==
    IF c = "NoSuchKey" THEN Err("InvalidSerial")
    ELSE UnhandledErrorResponse(c)

\* C8 as stated: for every body that holds an Error element followed by a
\* Code element with text c, get_info returns InvalidSerial when c is
\* NoSuchKey and UnhandledErrorResponse(c) otherwise.
C8_ErrorCodeForEveryBody ==
    LET E == Events(i_response_txt)
    IN  (InfoAnswered /\ CodesWithText(E) # {}) =>
            i_result = ForCode(CodeText(E, First(CodesWithText(E))))

\* The bodies C8 holds for: no "Not found" in the body, the first Code
\* element after an Error element is directly followed by its text, and no
\* TITLE or package element comes before it.
ErrorDocument(body) ==
    LET E == Events(body)
    IN  /\ ~MentionsNotFound(body)
        /\ CodesAfterError(E) # {}
        /\ First(CodesAfterError(E)) \in CodesWithText(E)
        /\ \A j \in 1..(First(CodesAfterError(E)) - 1) :
               /\ ~(E[j].ev = "Start" /\ StartsWithTITLE(E[j].name))
               /\ E[j].name # "package"

\* C8, amended: for every body without "Not found" whose first Code element
\* after an Error element is directly followed by a text c, no TITLE or
\* package element before it, get_info returns InvalidSerial when c is
\* NoSuchKey and UnhandledErrorResponse(c) otherwise, c being the text
\* trimmed and unescaped; parse_response has run once.
C8_ErrorCodeOfErrorDocument ==
    (InfoAnswered /\ ErrorDocument(i_response_txt)) =>
        LET E == Events(i_response_txt)
        IN  /\ i_result = ForCode(CodeText(E, First(CodesAfterError(E))))
            /\ i_parse_calls = 1

\* C8, witness: get_info returned UnhandledErrorResponse with the code
\* unescaped for a body "<Error><Code>A&amp;B".
C8_Witness ==
    /\ InfoAnswered
    /\ ErrorDocument(i_response_txt)
    /\ Len(i_response_txt) = 3
    /\ i_response_txt[3].raw = "A&amp;B"
    /\ i_result = UnhandledErrorResponse("A&B")

\* C9: once the body of the title manifest is received, an empty body makes
\* get_info return NoUpdatesAvailable and a body holding "Not found" makes
\* it return InvalidSerial, in both cases without a call of parse_response.
C9_ChecksBeforeParsing ==
    i_texts > 0 =>
        /\ i_response_txt = <<>> =>
              /\ i_pc = "done"
              /\ i_result = Err("NoUpdatesAvailable")
              /\ i_parse_calls = 0
        /\ MentionsNotFound(i_response_txt) =>
              /\ i_pc = "done"
              /\ i_result = Err("InvalidSerial")
              /\ i_parse_calls = 0

\* C9, witness: get_info returned InvalidSerial without parsing a body that
\* holds "Not found" as the text of the Code element of an Error element.
C9_Witness ==
    /\ InfoAnswered
    /\ Len(i_response_txt) = 3
    /\ IsStart(i_response_txt[1], "Error")
    /\ IsStart(i_response_txt[2], "Code")
    /\ i_response_txt[3].raw = "Not found"
    /\ i_result = Err("InvalidSerial")
    /\ i_parse_calls = 0

\* C10: a well-formed piece manifest with no pieces appends no package to
\* the info and makes get_info return NoUpdatesAvailable.
C10_EmptyPiecesNoUpdates ==
    (i_manifest.well_formed /\ i_manifest.pieces = <<>>) =>
        /\ i_pc = "done"
        /\ i_result = Err("NoUpdatesAvailable")
        /\ i_info.packages = i_before

\* C10, witness: get_info returned NoUpdatesAvailable for an empty piece
\* manifest of the second top-level package, the first one having
\* contributed its pieces.
C10_Witness ==
    /\ i_pc = "done"
    /\ i_manifest.well_formed
    /\ i_manifest.pieces = <<>>
    /\ i_before # <<>>
    /\ i_result = Err("NoUpdatesAvailable")

\* What parse_response makes of the body of the title manifest.
Parsed == parse_response(i_response_txt, UpdateInfoEmpty(i_platform_variant))

\* C11: every UpdateInfo get_info returns as Ok, for PS3 and for PS4 after
\* the expansion of the piece manifests, has a title id and at least one
\* package; a parse result without title id or without packages is returned
\* as NoUpdatesAvailable.
C11_OkInfoNeverEmpty ==
    /\ (i_pc = "done" /\ i_result = OkInfo) =>
          /\ i_info.title_id # ""
          /\ i_info.packages # <<>>
    /\ (i_parse_calls = 1 /\ Parsed.result = "Ok"
          /\ (Parsed.info.title_id = "" \/ Parsed.info.packages = <<>>)) =>
          /\ i_pc = "done"
          /\ i_result = Err("NoUpdatesAvailable")

\* C11, witness: get_info returned Ok for a PS4 title after the expansion
\* of two piece manifests.
C11_Witness ==
    /\ i_pc = "done"
    /\ i_result = OkInfo
    /\ i_platform_variant = PS4
    /\ Len(i_expanded) = 2
    /\ i_info.title_id # ""
    /\ Len(i_info.packages) >= 2

\* The serial normalized as C12 describes it: the characters between the
\* first and the last one that is not white space, the dashes left out,
\* each letter replaced by its capital.
Lower == <<"a", "b", "c", "l", "n", "p", "s", "u", "x">>
Upper == <<"A", "B", "C", "L", "N", "P", "S", "U", "X">>
Capital(ch) ==
    IF \E k \in 1..Len(Lower) : Lower[k] = ch
    THEN Upper[CHOOSE k \in 1..Len(Lower) : Lower[k] = ch]
    ELSE ch
Normalized(s) ==
    LET ink == {j \in 1..Len(s) : s[j] \notin {" ", "\t"}}
        core == IF ink = {} THEN <<>>
                ELSE SubSeq(s, CHOOSE j \in ink : \A k \in ink : j <= k,
                               CHOOSE j \in ink : \A k \in ink : j >= k)
        kept == {j \in 1..Len(core) : core[j] # "-"}
        Nth(n) == CHOOSE j \in kept : Cardinality({k \in kept : k <= j}) = n
    IN  [n \in 1..Cardinality(kept) |-> Capital(core[Nth(n)])]

Begins(s, a, b) == Len(s) >= 2 /\ s[1] = a /\ s[2] = b
IsVariant3(s) ==
    Begins(s, "N", "P") \/ Begins(s, "B", "L") \/ Begins(s, "B", "C")
IsVariant4(s) ==
    Len(s) >= 4 /\ SubSeq(s, 1, 4) = <<"C", "U", "S", "A">>

\* C12: the title id get_info works with is the serial trimmed, without
\* dashes, in capitals; it is classified PS3 exactly when it begins with NP,
\* BL or BC and PS4 exactly when it begins with CUSA; any other serial makes
\* get_info return InvalidSerial with no request sent.  "bcus-98148" gives
\* "BCUS98148" and PS3, "cusa00001" gives PS4, "xx00000" fails.
C12_NormalizeAndClassify ==
    i_pc # "start" =>
        /\ i_title_id = Normalized(i_input)
        /\ i_platform_variant = PS3 <=> IsVariant3(Normalized(i_input))
        /\ i_platform_variant = PS4 <=> IsVariant4(Normalized(i_input))
        /\ (~IsVariant3(Normalized(i_input))
              /\ ~IsVariant4(Normalized(i_input))) =>
              /\ i_pc = "done"
              /\ i_result = Err("InvalidSerial")
              /\ i_requests = <<>>
        /\ i_input = <<"b", "c", "u", "s", "-", "9", "8", "1", "4", "8">> =>
              /\ i_title_id = <<"B", "C", "U", "S", "9", "8", "1", "4", "8">>
              /\ i_platform_variant = PS3
        /\ i_input = <<"c", "u", "s", "a", "0", "0", "0", "0", "1">> =>
              i_platform_variant = PS4
        /\ i_input = <<"x", "x", "0", "0", "0", "0", "0">> =>
              i_result = Err("InvalidSerial")

\* C12, witness: get_info returned InvalidSerial without a request for the
\* serial "- bc", whose dash is removed after the trimming.
C12_Witness ==
    /\ i_input = <<"-", " ", "b", "c">>
    /\ i_title_id = <<" ", "B", "C">>
    /\ i_pc = "done"
    /\ i_result = Err("InvalidSerial")
    /\ i_requests = <<>>

\* The packages a call of parse_manifest_response appended, and the place
\* in info.packages of piece k of call j.
Appended(call) ==
    IF call.manifest.well_formed THEN Len(call.manifest.pieces) ELSE 0

RECURSIVE PiecesBefore(_)
PiecesBefore(j) ==
    IF j <= 1 THEN 0
    ELSE PiecesBefore(j - 1) + Appended(i_expanded[j - 1])

PieceRecord(j, k) == i_info.packages[PiecesBefore(j) + k]

\* C13: every package appended for a piece carries as part_number the
\* 1-based position of the piece in its manifest when the manifest declares
\* more than one split file, and no part_number otherwise.
C13_PartNumberOfPieces ==
    \A j \in 1..Len(i_expanded) :
        \A k \in 1..Appended(i_expanded[j]) :
            PieceRecord(j, k).part_number =
                IF i_expanded[j].manifest.number_of_split_files > 1
                THEN Some(k) ELSE None

\* C14: every package appended for a piece carries the version of the
\* top-level package whose manifest it comes from, whatever number of split
\* files the manifest declares.
C14_PieceVersionOfParent ==
    \A j \in 1..Len(i_expanded) :
        \A k \in 1..Appended(i_expanded[j]) :
            PieceRecord(j, k).version = i_expanded[j].package.version

\* C15: no run of start_download aborts its task: whatever the environment
\* does, the caller dropping its receiver included, a run that ends returns
\* Ok(()) or a typed DownloadError.
C15_EveryFailureIsTyped ==
    d_pc = "done" => d_result \in ({"Ok"} \cup TypedErrors)

\* The sum of the Progress values of a sequence of events.
RECURSIVE SumProgress(_)
SumProgress(evs) ==
    IF evs = <<>> THEN 0
    ELSE (IF Head(evs).kind = "Progress" THEN Head(evs).n ELSE 0)
             + SumProgress(Tail(evs))

\* The run found the file unverified, emptied it and is receiving the body
\* or checking what it received.
InTransfer ==
    \/ d_pc \in {"chunk", "progress", "write", "sync", "verifying2", "hash2",
                 "failure"}
    \/ d_pc = "success" /\ Len(d_hashes) = 2

\* C16 as stated: during the transfer the sum of the Progress values sent
\* never exceeds the number of bytes written to the file.
C16_ProgressNeverAhead ==
    InTransfer => SumProgress(d_sent) <= Len(d_disk)

\* C16, amended: each chunk is appended to the file in the order received,
\* its Progress event being the last one sent before the write; the sum of
\* the Progress values never decreases during a run, and it equals the
\* bytes written plus the length of the chunk whose write is pending.
C16_ProgressTracksWrites ==
    /\ [](InTransfer =>
             /\ SumProgress(d_sent) =
                    Len(d_disk) + (IF d_pc = "write" THEN Len(d_chunk) ELSE 0)
             /\ d_received =
                    SumProgress(d_sent)
                        + (IF d_pc = "progress" THEN Len(d_chunk) ELSE 0))
    /\ [][(d_pc = "write" /\ d_pc' = "chunk") =>
             /\ d_disk' = d_disk \o d_chunk
             /\ d_sent # <<>>
             /\ d_sent[Len(d_sent)] = Progress(Len(d_chunk))]_vars
    /\ [][d_run' = d_run => SumProgress(d_sent') >= SumProgress(d_sent)]_vars

\* C16, witness: two chunks were received, announced and written, and the
\* sum of the Progress values is the length of the file.
C16_Witness ==
    /\ d_pc = "chunk"
    /\ d_delivered = 2
    /\ Len(d_sent) = 3
    /\ Len(d_disk) >= 2
    /\ SumProgress(d_sent) = Len(d_disk)

\* A piece manifest that parses and lists at least one piece.
PieceListOk(manifest) == manifest.well_formed /\ manifest.pieces # <<>>

\* C17: a failed step of get_info is its last one.  A title manifest that
\* fails to parse, or parses to nothing, is followed by no request; a piece
\* manifest that fails is the last one fetched, whatever top-level packages
\* remain; after the return nothing is requested or changed; and Ok is
\* returned for a PS4 title only when every top-level package was expanded.
C17_FailureShortCircuits ==
    /\ [](/\ i_result # Running => i_pc = "done"
          /\ \A j \in 1..(Len(i_expanded) - 1) :
                 PieceListOk(i_expanded[j].manifest)
          /\ (i_parse_calls = 1
                 /\ (Parsed.result # "Ok" \/ Parsed.info.title_id = ""
                        \/ Parsed.info.packages = <<>>)) =>
                 /\ i_pc = "done"
                 /\ i_result.kind \notin {"none", "Ok"}
                 /\ Len(i_requests) = 1
                 /\ i_expanded = <<>>
          /\ (i_expanded # <<>>
                 /\ ~PieceListOk(i_expanded[Len(i_expanded)].manifest)) =>
                 /\ i_pc = "done"
                 /\ i_result.kind \in {"NoUpdatesAvailable", "ManifestParsing"}
                 /\ Len(i_requests) = 1 + Len(i_expanded)
          /\ (i_result = OkInfo /\ i_platform_variant = PS4) =>
                 /\ i_parent_manifest_packages = <<>>
                 /\ Len(i_expanded) = Len(Parsed.info.packages)
                 /\ \A j \in 1..Len(i_expanded) :
                        PieceListOk(i_expanded[j].manifest))
    /\ [][i_result # Running => UNCHANGED <<i_requests, i_info>>]_vars

\* C17, witness: the piece manifest of the first top-level package was not
\* well-formed; get_info returned ManifestParsing without a request for the
\* manifest of the second one.
C17_Witness ==
    /\ i_pc = "done"
    /\ i_result = Err("ManifestParsing")
    /\ Len(i_expanded) = 1
    /\ i_parent_manifest_packages # <<>>
    /\ Len(i_requests) = 2

(***************************************************************************)
(* Properties of the update query of the library crate.                    *)
(***************************************************************************)
\* A response was received and get_updates has returned.
UpdatesAnswered == u_pc = "done" /\ u_response.status # 0

\* The document has all that UpdateData requires.
HoldsUpdateData(body) ==
    /\ body.text = "<titlepatch>"
    /\ body.titleid /\ body.tag /\ body.name
    /\ body.package >= 1 /\ body.complete

\* C18: for a response with status 404 get_updates returns NotFound and the
\* body is not read; it returns NoUpdates exactly when the status is not
\* 404 and the body read is empty; for any other body read it returns the
\* UpdateData deserialized from it, or SerdeXmlErr.
C18_StatusThenEmptyThenXml ==
    UpdatesAnswered =>
        /\ u_response.status = 404 =>
              /\ u_result = PSNError("NotFound")
              /\ u_body_reads = 0
        /\ u_result = PSNError("NoUpdates") <=>
              /\ u_response.status # 404
              /\ u_body_reads = 1
              /\ u_response.body = EmptyBody
        /\ (u_response.status # 404 /\ u_body_reads = 1
              /\ u_response.body # EmptyBody) =>
              IF HoldsUpdateData(u_response.body)
              THEN /\ u_result.kind = "Ok"
                   /\ u_result.data.package = u_response.body.package
              ELSE u_result = PSNError("SerdeXmlErr")
        /\ u_result.kind = "Ok" => u_result.data.package >= 1

\* C18, witness: a response with status 200 and an empty body made
\* get_updates return NoUpdates.
C18_Witness ==
    /\ UpdatesAnswered
    /\ u_response.status = 200
    /\ u_response.body = EmptyBody
    /\ u_body_reads = 1
    /\ u_result = PSNError("NoUpdates")

(***************************************************************************)
(* Further properties of the hashing utility.                              *)
(***************************************************************************)
\* C19: hash_file answers false without hashing exactly for a file shorter
\* than the excluded suffix (32 bytes, none under whole-file hashing); for
\* every other file, one of exactly the suffix length and an empty file
\* under whole-file hashing included, it answers whether the SHA-1 of the
\* bytes before the suffix is the expected hash.
C19_UnverifiedOnlyWhenShorter ==
    (h_pc = "done" /\ h_st.outcome \in {"true", "false"}) =>
        IF Len(h_st.file) < suffix_size(h_whole)
        THEN h_st.outcome = "false" /\ h_st.fed = <<>>
        ELSE h_st.outcome = "true" <=>
                 Sha1Of(Covered(h_st.file, h_whole)) = h_st.hash

(***************************************************************************)
(* Further properties of the resolver.                                     *)
(***************************************************************************)
\* What a package says of its file, and what a piece of a manifest requires
\* of its package.
FileFields(package) ==
    [url |-> package.url, size |-> package.size, sha1sum |-> package.sha1sum,
     offset |-> package.offset, hash_whole_file |-> package.hash_whole_file,
     manifest_url |-> package.manifest_url]
OfPiece(piece) ==
    [url |-> piece.url, size |-> piece.file_size, sha1sum |-> piece.hash_value,
     offset |-> piece.file_offset, hash_whole_file |-> TRUE,
     manifest_url |-> ""]

\* The pieces of the manifests of a sequence of calls, in order.
RECURSIVE Flattened(_)
Flattened(calls) ==
    IF calls = <<>> THEN <<>>
    ELSE [k \in 1..Len(Head(calls).manifest.pieces) |->
             OfPiece(Head(calls).manifest.pieces[k])]
         \o Flattened(Tail(calls))

\* C20: when get_info returns Ok for a PS4 title, the manifests were
\* requested for the top-level packages in the order of the title manifest,
\* and info.packages is the pieces of the first manifest in their order,
\* then those of the second, and so on, each with the url, size, digest and
\* offset of its piece and hash_whole_file = true; no top-level package is
\* in the list.
C20_PackagesAreFlattenedPieces ==
    (i_pc = "done" /\ i_result = OkInfo /\ i_platform_variant = PS4) =>
        /\ Len(i_expanded) = Len(Parsed.info.packages)
        /\ \A j \in 1..Len(i_expanded) :
               /\ i_expanded[j].package = Parsed.info.packages[j]
               /\ i_requests[1 + j] =
                      ManifestRequest(Parsed.info.packages[j].manifest_url)
        /\ [n \in 1..Len(i_info.packages) |-> FileFields(i_info.packages[n])]
               = Flattened(i_expanded)
        /\ \A n \in 1..Len(i_info.packages) :
               /\ i_info.packages[n].hash_whole_file
               /\ i_info.packages[n].manifest_url = ""

\* C20, witness: get_info returned Ok for a PS4 title with two different
\* top-level packages, the manifest of the first with two pieces and that
\* of the second with one.
C20_Witness ==
    /\ i_pc = "done"
    /\ i_result = OkInfo
    /\ i_platform_variant = PS4
    /\ Len(i_expanded) = 2
    /\ i_expanded[1].package.version # i_expanded[2].package.version
    /\ Len(i_expanded[1].manifest.pieces) = 2
    /\ Len(i_expanded[2].manifest.pieces) = 1
    /\ Len(i_info.packages) = 3
    /\ i_info.packages[2].url # i_info.packages[3].url

\* The body of the title manifest holds a <package ...> start tag with a
\* manifest_url attribute.
CarriesPointer(response) ==
    \E j \in 1..Len(response) :
        /\ response[j].ev = "Start"
        /\ response[j].name = "package"
        /\ \E a \in 1..Len(response[j].attrs) :
               response[j].attrs[a].key = "manifest_url"

IsProgress(ev) == ev.kind = "Progress"
IsTerminal(ev) == ev \in {DownloadSuccess, DownloadFailure}
FollowsProtocol(sent) ==
    LET n == Len(sent)
        second == IF \E j \in 2..n : sent[j] = Verifying
                  THEN CHOOSE j \in 2..n : sent[j] = Verifying
                                           /\ \A k \in 2..(j - 1) : sent[k] # Verifying
                  ELSE n + 1
    IN  /\ n >= 1 => sent[1] = Verifying
        /\ \/ n <= 1
           \/ sent = <<Verifying, DownloadSuccess>>
           \/ /\ \A j \in 2..Min(n, second - 1) : IsProgress(sent[j])
              /\ n <= second + 1
              /\ n = second + 1 => IsTerminal(sent[n])
Emitted(ev) == \E j \in 1..Len(d_sent) : d_sent[j] = ev

\* The second Verifying is sent from the position after sync_all only, and
\* that position is entered by a sync_all that succeeded.
VerifyingAfterSync ==
    /\ (/\ Len(d_sent') = Len(d_sent) + 1
        /\ Len(d_sent) >= 1
        /\ d_sent'[Len(d_sent')] = Verifying) => d_pc = "verifying2"
    /\ (d_pc' = "verifying2" /\ d_pc # "verifying2") =>
           (d_pc = "sync" /\ d_result' = "none")

\* C22: the events of a run follow the protocol, the second Verifying comes
\* after sync_all, DownloadSuccess is emitted exactly when the run returns
\* Ok(()) and DownloadFailure exactly when it returns HashMismatch.
C22_EventProtocol ==
    /\ [](/\ FollowsProtocol(d_sent)
          /\ d_pc = "done" =>
                /\ Emitted(DownloadSuccess) <=> d_result = "Ok"
                /\ Emitted(DownloadFailure) <=>
                       d_result \in {HashMismatch(TRUE), HashMismatch(FALSE)})
    /\ [][VerifyingAfterSync]_vars

\* C22, as the code has it: the same, except that HashMismatch(true) is
\* also what a run returns, after a Verifying and with no terminal event,
\* when hash_file cannot convert the length of the file to usize.
C22_EventProtocolButConversion ==
    /\ [](/\ FollowsProtocol(d_sent)
          /\ d_pc = "done" =>
                /\ Emitted(DownloadSuccess) <=> d_result = "Ok"
                /\ Emitted(DownloadFailure) =>
                       d_result \in {HashMismatch(TRUE), HashMismatch(FALSE)}
                /\ (/\ d_result \in {HashMismatch(TRUE), HashMismatch(FALSE)}
                    /\ ~Emitted(DownloadFailure)) =>
                       /\ d_result = HashMismatch(TRUE)
                       /\ d_hashes[Len(d_hashes)] = "hash_mismatch"
                       /\ usize_bits < 64
                       /\ d_sent[Len(d_sent)] = Verifying)
    /\ [][VerifyingAfterSync]_vars

\* C22, witness: a run that received a chunk, sent its second Verifying and
\* ended with DownloadFailure and HashMismatch.
C22_Witness ==
    /\ d_pc = "done"
    /\ Len(d_sent) = 4
    /\ IsProgress(d_sent[2])
    /\ d_sent[3] = Verifying
    /\ d_sent[4] = DownloadFailure
    /\ d_result = HashMismatch(FALSE)

\* The check of the received file answered false and the run returned (the
\* file not written by anything else since).
VerificationFailed ==
    /\ d_pc = "done"
    /\ Len(d_hashes) = 2
    /\ d_hashes[2] = "false"
    /\ d_result # "panic"
    /\ ~d_touched

Transferring == d_pc \in {"chunk", "progress", "write"}
StreamEnded ==
    \/ d_pc \in {"sync", "verifying2", "hash2"}
    \/ Len(d_hashes) = 2 /\ ~d_touched

\* C24: a file that does not verify is emptied and the cursor rewound
\* before a chunk is written: in the loop the file is the chunks written so
\* far with the cursor at its end, and once the stream has ended the file
\* is the chunks received in this run, joined in order, with no byte of
\* the content the run found.
C24_FileIsWhatWasReceived ==
    /\ Transferring =>
          /\ d_cursor = Len(d_disk)
          /\ d_disk = IF d_pc = "chunk" THEN d_body
                      ELSE Take(d_body, Len(d_body) - Len(d_chunk))
    /\ StreamEnded => d_disk = d_body

\* C24, witness: the stream ended on a file that held more bytes than the
\* run received.
C24_Witness ==
    /\ d_pc = "sync"
    /\ d_body # <<>>
    /\ Len(d_start) > Len(d_body)
    /\ d_start # d_body \o Drop(d_start, Len(d_body))
    /\ d_disk = d_body

(***************************************************************************)
(* Further properties of the merge engine.                                 *)
(***************************************************************************)
\* The package the loop is at, and the step in which copy_pkg_file fails.
LoopPackage == m_packages[m_i]
CopyFails == ~m_io_error /\ m_io_error'

\* A failing copy leaves every file as it was, but for one that holds a
\* part of the payload at the offset of the package.
PartialCopy ==
    \/ m_fs' = m_fs
    \/ \E target \in DOMAIN m_fs' :
          /\ \A other \in DOMAIN m_fs' \ {target} :
                other \in DOMAIN m_fs /\ m_fs'[other] = m_fs[other]
          /\ DOMAIN m_fs \subseteq DOMAIN m_fs'
          /\ \E k \in 0..(Len(LoopPackage.payload) - 1) :
                m_fs'[target] =
                    IF k = 0 THEN FileBytes(m_fs, target)
                    ELSE WriteAt(FileBytes(m_fs, target), LoopPackage.offset,
                                 Take(LoopPackage.payload, k))

\* C25: when copy_pkg_file fails for a part, merge_parts returns
\* FileMergeFailure at once: the failed copy is the last file operation, no
\* later part is opened or copied, no MergeSuccess is sent, and the files
\* stay as the failed copy left them.
C25_CopyFailureAbandonsMerge ==
    /\ [](m_io_error =>
            /\ m_pc = "done"
            /\ m_result = "FileMergeFailure"
            /\ \A j \in 1..Len(m_sent) : m_sent[j] # MergeSuccess
            /\ Len(m_sent) = m_i - 1
            /\ Len(m_copies) = m_i
            /\ m_opens \in (2 * (m_i - 1))..(2 * m_i))
    /\ [](m_result = "FileMergeFailure" => m_io_error)
    /\ [][/\ CopyFails => PartialCopy
          /\ m_io_error => UNCHANGED <<m_fs, m_opens, m_copies, m_sent>>]_vars

\* C25, witness: the copy of the second of three parts failed with a part
\* of its payload written.
C25_Witness ==
    /\ m_io_error
    /\ m_result = "FileMergeFailure"
    /\ Len(m_packages) = 3
    /\ m_i = 2
    /\ m_opens = 4
    /\ Len(m_sent) = 1
    /\ m_fs # m_fs0

\* The part numbers of the first n packages in the order of the loop, as
\* PartProgress events.
ProgressOfParts(n) == [j \in 1..n |-> PartProgress(m_packages[j].part_number.n)]

\* The bytes of package j sit in some file at the offset of the package.
CopiedWhole(j) ==
    \E name \in DOMAIN m_fs :
        /\ Len(m_fs[name]) >= m_packages[j].offset + Len(m_packages[j].payload)
        /\ SubSeq(m_fs[name], m_packages[j].offset + 1,
                  m_packages[j].offset + Len(m_packages[j].payload))
               = m_packages[j].payload

\* An event is sent in this step.
EventSent == Len(m_sent') = Len(m_sent) + 1

\* C26: PartProgress(n) is sent once for each part, after the whole of the
\* part was copied; MergeSuccess is sent once, after the PartProgress of
\* every part, exactly when merge_parts returns Ok(()); nothing follows it.
C26_MergeEventProtocol ==
    /\ [](IF Len(m_sent) <= Len(m_packages)
          THEN m_sent = ProgressOfParts(Len(m_sent))
          ELSE /\ m_sent = Append(ProgressOfParts(Len(m_packages)), MergeSuccess)
               /\ m_pc = "done")
    /\ [](m_pc = "done" =>
             (m_result = "Ok" <=>
                 (m_sent # <<>> /\ m_sent[Len(m_sent)] = MergeSuccess)))
    /\ [][EventSent =>
             \/ /\ m_sent'[Len(m_sent')] = MergeSuccess
                /\ Len(m_sent) = Len(m_packages)
                /\ m_result' = "Ok"
             \/ /\ m_sent'[Len(m_sent')] = PartProgress(LoopPackage.part_number.n)
                /\ m_i = Len(m_sent')
                /\ Len(m_copies) = m_i
                /\ CopiedWhole(m_i)
                /\ ~m_io_error]_vars

\* C26, witness: merge_parts returned Ok(()) for three parts given out of
\* order, with three PartProgress events and MergeSuccess.
C26_Witness ==
    /\ m_pc = "done"
    /\ m_result = "Ok"
    /\ Len(m_packages) = 3
    /\ m_packages[1].part_number.n # 1
    /\ Len(m_sent) = 4
    /\ m_sent[4] = MergeSuccess

\* mod.rs:204-219, read off the package: its name can be derived and ends
\* with "_<part_number-1>.pkg".
NameDerived(package) == package.url_ok
NameValid(package) ==
    /\ NameDerived(package)
    /\ package.part_number.n >= 1
    /\ package.name # <<>>
    /\ package.name[Len(package.name)] = Idx(package.part_number.n - 1)

\* The step in which the loop treats a package.
TreatsPackage == m_pc = "loop" /\ m_pc' # "loop"

\* C27: the name of a part is validated before anything is opened or
\* written for the part, a part with an underivable or ill-ending name
\* makes merge_parts return FilepathMismatch, and when FilepathMismatch is
\* returned no merged file was modified by this merge.
C27_MismatchLeavesOutputUntouched ==
    /\ [](m_result = "FilepathMismatch" =>
             /\ ~NameValid(LoopPackage)
             /\ m_fs = m_fs0)
    /\ [][(TreatsPackage /\ ~NameValid(LoopPackage)) =>
             /\ m_result' = "FilepathMismatch"
             /\ UNCHANGED <<m_fs, m_opens, m_copies>>]_vars

\* C27, as the code has it: the name of each part is validated when the
\* loop comes to the part.  A part with an underivable or ill-ending name
\* ends the merge with FilepathMismatch (part number 0: with
\* FilepathMismatch or a panic) and nothing is opened or written for it or
\* for a later part; the parts before it in the list have been copied, one
\* PartProgress each, and stay copied.
C27_ValidationBeforeEachPart ==
    /\ [](m_result = "FilepathMismatch" =>
             /\ ~NameValid(LoopPackage)
             /\ \A j \in 1..(m_i - 1) : NameValid(m_packages[j])
             /\ Len(m_copies) = m_i - 1
             /\ Len(m_sent) = m_i - 1
             /\ m_opens = 2 * (m_i - 1)
             /\ \A j \in 1..(m_i - 1) : CopiedWhole(j)
             /\ ~m_io_error)
    /\ [][(TreatsPackage /\ ~NameValid(LoopPackage)) =>
             /\ m_result' \in {"FilepathMismatch"} \cup
                    (IF NameDerived(LoopPackage)
                        /\ LoopPackage.part_number.n = 0
                     THEN {"panic"} ELSE {})
             /\ UNCHANGED <<m_fs, m_opens, m_copies, m_sent>>]_vars

\* C27, witness: the third part of an update has a name that does not end
\* as expected; merge_parts returned FilepathMismatch with the first two
\* parts copied into the merged file.
C27_Witness ==
    /\ m_pc = "done"
    /\ m_result = "FilepathMismatch"
    /\ m_i = 3
    /\ LoopPackage.part_number.n >= 1
    /\ NameDerived(LoopPackage)
    /\ Len(m_copies) = 2
    /\ m_fs # m_fs0

\* A name with its last piece, the "_<k>.pkg", taken off and ".pkg" put on.
SuffixStripped(name) == Append(Take(name, Len(name) - 1), Lit(".pkg"))

\* The files this merge has created or written.
Written == {name \in DOMAIN m_fs : name \notin DOMAIN m_fs0
                                    \/ m_fs[name] # m_fs0[name]}

\* The step in which a part is copied, whole or in part.
CopiesPart == Len(m_copies') = Len(m_copies) + 1

\* C28: the merged file of a part with a valid name is named as the part
\* with the trailing "_<part_number-1>.pkg" replaced by ".pkg", and all
\* the parts of one merge go into one and the same merged file.
C28_OneMergedFile ==
    /\ [](Cardinality(Written) <= 1)
    /\ [][CopiesPart =>
             \A name \in DOMAIN m_fs' :
                 (name \notin DOMAIN m_fs \/ m_fs'[name] # m_fs[name]) =>
                     name = SuffixStripped(LoopPackage.name)]_vars

\* C28, as the code has it: the merged file of a part with a valid name is
\* named as the part with every "_<part_number-1>.pkg" in it replaced by
\* ".pkg", the last one and any before it; two parts go into the same
\* merged file exactly when their names give the same merged name.
C28_MergedNameByReplace ==
    [][CopiesPart =>
          LET k == LoopPackage.part_number.n - 1
              merged == [j \in 1..Len(LoopPackage.name) |->
                            IF LoopPackage.name[j] = Idx(k) THEN Lit(".pkg")
                            ELSE LoopPackage.name[j]]
          IN  /\ NameValid(LoopPackage)
              /\ merged[Len(merged)] = Lit(".pkg")
              /\ (\A j \in 1..(Len(merged) - 1) : LoopPackage.name[j] # Idx(k))
                     => merged = SuffixStripped(LoopPackage.name)
              /\ \A name \in DOMAIN m_fs' :
                     (name \notin DOMAIN m_fs \/ m_fs'[name] # m_fs[name]) =>
                         name = merged
              /\ m_pc' = "part_progress" => merged \in DOMAIN m_fs']_vars

\* C28, witness: a merge that returned Ok(()) wrote two merged files,
\* "a.pkg" and "b.pkg".
C28_Witness ==
    /\ m_pc = "done"
    /\ m_result = "Ok"
    /\ Cardinality(Written) = 2

\* A body with every self-closing <package .../> written as a start tag
\* <package ...> with the same attributes.
AsStartTag(token) ==
    IF token.ev = "Empty" /\ token.name = "package"
    THEN StartEl("package", token.attrs) ELSE token
AsStartTags(response) == [j \in 1..Len(response) |-> AsStartTag(response[j])]

\* C29: parse_response treats a package element alike in its start-tag
\* form and in its self-closing form: the body parsed, and the same body
\* with its self-closing package elements written as start tags, give the
\* same packages (version, size, sha1sum, url, manifest_url) and the same
\* result.
C29_BothFormsAlike ==
    i_parse_calls >= 1 =>
        LET other == parse_response(AsStartTags(i_response_txt),
                                    UpdateInfoEmpty(i_platform_variant))
        IN  /\ Parsed.result = other.result
            /\ Parsed.reason = other.reason
            /\ Parsed.info = other.info

\* The package elements of a body, in order, and the record that the
\* attributes of one element give on their own (manifest_url in the start
\* form, as read by parse_response).
PackageElements(response) ==
    SelectSeq(response,
              LAMBDA tok : tok.ev \in {"Start", "Empty"} /\ tok.name = "package")
RECURSIVE OwnFields(_, _, _)
OwnFields(record, attrs, fields) ==
    IF attrs = <<>> THEN record
    ELSE LET key == Head(attrs).key
             value == Unescape(Head(attrs).raw).value
         IN  OwnFields(
                 IF key \notin fields THEN record
                 ELSE [record EXCEPT ![key] =
                          CASE key = "version" -> Version(value)
                            [] key = "size" -> ParseU64(value)
                            [] OTHER -> value],
                 Tail(attrs), fields)
OwnRecord(element) ==
    OwnFields(PackageInfoEmpty, element.attrs,
              {"version", "size", "sha1sum", "url"}
                  \cup (IF element.ev = "Start" THEN {"manifest_url"} ELSE {}))

\* C30: a body that parses gives one package for each of its package
\* elements, in order, each with the fields that the attributes of its own
\* element give, whatever their order and with or without a version.
C30_OneRecordPerElement ==
    (i_parse_calls >= 1 /\ Parsed.result = "Ok") =>
        LET elements == PackageElements(i_response_txt)
        IN  /\ Len(Parsed.info.packages) = Len(elements)
            /\ \A j \in 1..Len(elements) :
                   Parsed.info.packages[j] = OwnRecord(elements[j])

(***************************************************************************)
(* Properties of parse_response, result by result.                         *)
(***************************************************************************)
\* The elements open after the given results, innermost last.
RECURSIVE OpenElements(_)
OpenElements(read) ==
    IF read = <<>> THEN <<>>
    ELSE LET before == OpenElements(SubSeq(read, 1, Len(read) - 1))
             e == read[Len(read)]
         IN  CASE e.ev = "Start" -> Append(before, e.name)
               [] e.ev = "End" ->
                    IF before = <<>> THEN <<>>
                    ELSE SubSeq(before, 1, Len(before) - 1)
               [] OTHER -> before

\* The element the last result read, a text, is a child of ("" at top level).
ParentOfLast ==
    LET open == OpenElements(SubSeq(p_read, 1, Len(p_read) - 1))
    IN  IF open = <<>> THEN "" ELSE open[Len(open)]

ReturnedErrorCode == p_pc = "done" /\ p_st.result = "ErrorCode"

\* C31: the text parse_response returns as ParseError::ErrorCode is the
\* text of a Code element that follows an Error element: a text node of
\* another element is never returned as an error code.
C31_ErrorCodeIsTextOfCode ==
    ReturnedErrorCode =>
        /\ ParentOfLast = "Code"
        /\ \E j \in 1..Len(p_read) : p_read[j] = StartEl("Error", <<>>)

ReaderFailed(j) == j \in 1..Len(p_read) /\ p_read[j].ev = "Err"

\* C32: when the reader reports an error, parse_response stops at that
\* result and returns ParseError::XmlParsing: no later result is read.
C32_ReaderErrorStopsParse ==
    \A j \in 1..Len(p_read) :
        ReaderFailed(j) =>
            /\ j = Len(p_read)
            /\ p_pc = "done"
            /\ p_st.result = "XmlParsing"

\* C36: parse_response returns, whatever the reader answers: the loop ends
\* at an error return or at Eof.
C36_ParseReturns == <>(p_pc = "done")

C36_Witness ==
    /\ p_pc = "done"
    /\ Len(p_read) = MaxResults + 1
    /\ p_read[Len(p_read)] = EofEv
    /\ \E j \in 1..Len(p_read) : ReaderFailed(j)

(***************************************************************************)
(* Properties of the egui front end.                                       *)
(***************************************************************************)
\* C33: the download queue holds at most one download of a title and
\* package identity.
C33_NoDuplicateDownload ==
    \A j, k \in 1..Len(g_download_queue) :
        (/\ g_download_queue[j].title_id = g_download_queue[k].title_id
         /\ g_download_queue[j].pkg_id = g_download_queue[k].pkg_id)
            => j = k

Verified(pkg_id) == g_files[pkg_id] = "verified"
NoActiveDownload(pkg_id) ==
    \A j \in 1..Len(g_download_queue) : g_download_queue[j].pkg_id # pkg_id
Attempts(pkg_id) == {s \in 1..Len(g_tasks) : g_tasks[s].pkg_id = pkg_id}
LastAttemptOk(pkg_id) ==
    \E s \in Attempts(pkg_id) :
        /\ \A t \in Attempts(pkg_id) : t <= s
        /\ g_tasks[s].promise = "Ok"
SomeAttemptOk(pkg_id) ==
    \E s \in Attempts(pkg_id) : g_tasks[s].promise = "Ok"

C35_OneMergeOfATitle ==
    \A j, k \in 1..Len(g_merge_queue) :
        g_merge_queue[j].title_id = g_merge_queue[k].title_id => j = k

Started(serial) == serial <= Len(g_tasks)
Accounted(serial) ==
    /\ Started(serial)
    /\ g_tasks[serial].pc = "dropped"
    /\ Len(g_account[serial]) = 1
InQueue(serial) ==
    \E j \in 1..Len(g_download_queue) : g_download_queue[j].serial = serial
AccountedOnce ==
    \A serial \in 1..Len(g_tasks) :
        LET task == g_tasks[serial]
        IN  /\ InQueue(serial) <=> task.pc # "dropped"
            /\ task.pc = "dropped" => task.promise # "pending"
            /\ g_account[serial] =
                  IF task.pc # "dropped" THEN <<>>
                  ELSE IF task.promise = "Ok" THEN <<"completed">>
                  ELSE <<"failed">>
            /\ Len(g_completed_downloads) + Len(g_failed_downloads) =
                  Cardinality({s \in 1..Len(g_tasks) :
                                   g_tasks[s].pc = "dropped"})

HasDash(s) == \E j \in 1..Len(s) : s[j] = "-"
Trimmed(s) == s = <<>> \/ (~IsSpace(s[1]) /\ ~IsSpace(s[Len(s)]))
\* The query without the white space around it begins or ends with a dash.
DashAtAnEnd(s) ==
    LET ink == {j \in 1..Len(s) : ~IsSpace(s[j])}
    IN  \E j \in ink :
            /\ s[j] = "-"
            /\ (\A k \in ink : j <= k) \/ (\A k \in ink : j >= k)

\* C40: parse_title_id applied to its own result gives the result again,
\* and the result has no dash and no white space at its ends.
C40_TitleIdCanonical ==
    t_pc = "done" =>
        /\ t_again = t_title_id
        /\ ~HasDash(t_title_id)
        /\ Trimmed(t_title_id)

\* C40, holding: the result has no dash; applied again it has no dash and
\* no white space at its ends; and it is its own normal form with no white
\* space at its ends when the query, without the white space around it,
\* neither begins nor ends with a dash.
C40_TitleIdCanonicalUnlessDashAtAnEnd ==
    /\ t_pc # "query" => ~HasDash(t_title_id)
    /\ t_pc = "done" =>
          /\ ~HasDash(t_again)
          /\ Trimmed(t_again)
          /\ ~DashAtAnEnd(t_serial_query) =>
                t_again = t_title_id /\ Trimmed(t_title_id)

C40_Witness ==
    /\ t_pc = "done"
    /\ t_serial_query = <<" ", "a", "-", "B">>
    /\ t_title_id = <<"A", "B">>
    /\ t_again = <<"A", "B">>

(***************************************************************************)
(* The destination file of a download whose existing file verifies.       *)
(***************************************************************************)
ExistingFileVerified == d_hashes # <<>> /\ d_hashes[1] = "true"

\* C39: when the existing destination file verifies, start_download leaves
\* its length and its content as they were when it was called: nothing is
\* read from the response and nothing is written.
C39_VerifiedFileUntouched ==
    (ExistingFileVerified /\ ~d_touched) =>
        /\ d_disk = d_start
        /\ d_reads = 0
        /\ d_body = <<>>
        /\ d_pc \in {"success", "done"}
        /\ d_pc = "done" => d_result \in {"Ok", "panic"}

C39_Witness ==
    /\ d_pc = "done"
    /\ d_result = "Ok"
    /\ d_hashes = <<"true">>
    /\ d_start # <<>>
    /\ d_disk = d_start
    /\ d_sent = <<Verifying, DownloadSuccess>>

(***************************************************************************)
(* Properties of the paths of a download and of a merge.                   *)
(***************************************************************************)
\* The response came from a url with the last path segment of package.url.
SameLastSegment ==
    /\ n_response_url.scheme = "https"
    /\ n_update.url.scheme = "https"
    /\ n_response_url.segments[Len(n_response_url.segments)] =
          n_update.url.segments[Len(n_update.url.segments)]
Directory(path) == Take(path, Len(path) - 1)

\* The package is a part by its number and, where its url gives a file
\* name, by the end of that name.
IsPart ==
    /\ n_update.part_number.some
    /\ file_name(n_update).some =>
          EndsWith(file_name(n_update).name, n_update.part_number.n - 1)

\* C37: the path merge_parts reads a part from is the path start_download
\* wrote it to.
C37_MergeReadsWhereDownloadWrote ==
    (n_pc = "done" /\ IsPath(n_pkg_file) /\ IsPart)
        => n_package_path = n_pkg_file

\* C37, holding: when merge_parts derives a path for a part that was
\* downloaded, its directory is the directory of the download, and its
\* file name is the one of the download when the response came from a url
\* with the last path segment of package.url.
C37_MergeReadsWhereUnredirectedDownloadWrote ==
    (n_pc = "done" /\ IsPath(n_pkg_file) /\ IsPath(n_package_path)) =>
        /\ Directory(n_package_path) = Directory(n_pkg_file)
        /\ SameLastSegment => n_package_path = n_pkg_file

C37_Witness ==
    /\ n_pc = "done"
    /\ n_family = "windows"
    /\ n_update.titles = << <<"A", ":">>, <<"C">> >>
    /\ n_update.url = Url("https", << <<Lit("cdn")>>, <<Lit("a"), Idx(0)>> >>)
    /\ n_response_url = Url("https", << <<Lit("a"), Idx(0)>> >>)
    /\ n_pkg_file = <<"pkgs", [serial |-> n_update.title_id,
                               title |-> <<"A", "_">>],
                      <<Lit("a"), Idx(0)>> >>
    /\ n_package_path = n_pkg_file

====
